---- MODULE Spec2Model ----
(***************************************************************************)
(* The 6502 executor of test_vs_cpu.py (class CPU6502) and the decoder of  *)
(* disasm_6502.py (OPCODES, disasm), as state machines.                    *)
(*                                                                         *)
(* Memory is the 65536-byte bytearray of CPU6502.  It is held sparsely: a  *)
(* record [fill, cells] where cells maps the addresses whose byte differs  *)
(* from the background, and the background is 0 everywhere except the      *)
(* playfield pages $0400-$05FF, whose background is `fill' ($00 after      *)
(* construction, $FF after reset()).  Indexing follows Python: an index in *)
(* -65536..-1 counts from the end, anything outside -65536..65535 raises   *)
(* IndexError.                                                             *)
(***************************************************************************)
EXTENDS Integers, Sequences, FiniteSets, TLC

VARIABLES
    a, x, y, sp, pc, status, memory, cycles, max_cycles, \* fields of CPU6502
    routine,    \* harness: the routine under test and its load address
    ctl,        \* where the harness is: "new", "setup", "running", "done"
    outcome,    \* how run() ended: "none", "returned" (True), "budget" (False),
                \* "unsupported" (ValueError), "fault" (IndexError)
    err,        \* what the ValueError of run() reports: [opcode, pc]
    resets,     \* history: how many times reset() was called on this CPU
    first,      \* history: the bytes at $0727 and $04 when the first harness
                \* test on this CPU loaded its routine
    entry,      \* history: the CPU as run() found it, pc = start_addr
    last,       \* history: the latest loop iteration: the opcode fetched, how
                \* it ended, and the CPU as it was before it
    data, start_addr, base_offset, \* arguments of disasm
    i, lines,   \* locals of disasm
    dctl        \* where disasm is: "idle", "loop", "done"

cpuvars == <<a, x, y, sp, pc, status, memory, cycles, max_cycles>>
runvars == <<routine, ctl, outcome, err, resets, first, entry, last>>
disvars == <<data, start_addr, base_offset, i, lines, dctl>>
vars == <<cpuvars, runvars, disvars>>

Byte == 0..255
MemSize == 65536

-----------------------------------------------------------------------------
(* Python integer and bytearray primitives                                 *)

Bit(v, n) == (v \div (2 ^ n)) % 2

\* v & w on bytes
BitAnd(v, w) ==
    LET f[n \in 0..8] == IF n = 8 THEN 0
                         ELSE (2 ^ n) * Bit(v, n) * Bit(w, n) + f[n + 1]
    IN f[0]

\* mutant: v | w in place of v ^ w
BitXorAsOr(v, w) ==
    LET f[n \in 0..8] == IF n = 8 THEN 0
                         ELSE (2 ^ n) * (IF Bit(v, n) + Bit(w, n) > 0 THEN 1 ELSE 0)
                              + f[n + 1]
    IN f[0]

\* v ^ w on bytes
BitXor(v, w) ==
    LET f[n \in 0..8] == IF n = 8 THEN 0
                         ELSE (2 ^ n) * ((Bit(v, n) + Bit(w, n)) % 2) + f[n + 1]
    IN f[0]

\* bytearray(0x10000) index check: what memory[idx] accepts
IndexOK(idx) == idx >= -MemSize /\ idx < MemSize

\* the cell a valid index names
Cell(idx) == IF idx < 0 THEN idx + MemSize ELSE idx

Background(m, addr) == IF addr >= \h0400 /\ addr < \h0600 THEN m.fill ELSE 0

\* memory[idx] (read), idx valid
Peek(m, idx) ==
    LET c == Cell(idx)
    IN IF c \in DOMAIN m.cells THEN m.cells[c] ELSE Background(m, c)

\* memory[idx] = v, idx valid
Poke(m, idx, v) ==
    LET c == Cell(idx)
        keep == DOMAIN m.cells \ {c}
    IN [m EXCEPT !.cells = IF v = Background(m, c)
                           THEN [k \in keep |-> m.cells[k]]
                           ELSE (c :> v) @@ m.cells]

\* bytearray(0x10000)
ZeroMemory == [fill |-> 0, cells |-> [k \in {} |-> 0]]

\* the cells the loops of reset() assign: $0000-$00FF, $0300-$03FF and
\* $0700-$07FF (to 0) and $0400-$05FF (to $FF)
ResetCells ==
    (\h0000..\h00FF) \cup (\h0300..\h03FF) \cup (\h0400..\h05FF)
        \cup (\h0700..\h07FF)

\* memory after the four loops of reset(): every other cell keeps its byte
ResetMemory(m) ==
    LET keep == DOMAIN m.cells \ ResetCells
    IN [fill |-> \hFF, cells |-> [k \in keep |-> m.cells[k]]]

-----------------------------------------------------------------------------
(* CPU6502: flag helpers                                                   *)

set_z(st, value) ==
    IF value = 0 THEN (IF Bit(st, 1) = 1 THEN st ELSE st + 2)
                 ELSE (IF Bit(st, 1) = 1 THEN st - 2 ELSE st)

\* mutant: Negative taken from bit 6
set_n_bit6(st, value) ==
    IF Bit(value, 6) = 1 THEN (IF Bit(st, 7) = 1 THEN st ELSE st + 128)
                         ELSE (IF Bit(st, 7) = 1 THEN st - 128 ELSE st)

set_n(st, value) ==
    IF Bit(value, 7) = 1 THEN (IF Bit(st, 7) = 1 THEN st ELSE st + 128)
                         ELSE (IF Bit(st, 7) = 1 THEN st - 128 ELSE st)

set_c(st, value) ==
    IF value THEN (IF Bit(st, 0) = 1 THEN st ELSE st + 1)
             ELSE (IF Bit(st, 0) = 1 THEN st - 1 ELSE st)

get_z(st) == Bit(st, 1) = 1
get_n(st) == Bit(st, 7) = 1
get_c(st) == Bit(st, 0) = 1

\* set_z(v); set_n(v)
SetZN(st, v) == set_n(set_z(st, v), v)

-----------------------------------------------------------------------------
(* CPU6502.run: the opcodes of the elif chain                              *)

\* opcodes with no operand byte
Implied == {\h60, \hA8, \h98, \h8A, \hAA, \hE8, \hCA, \h88, \hC8,
            \h18, \h38, \h4A, \hEA}

\* opcodes that read memory[pc + 1] only
OneOperand == {\hA9, \hA5, \h85, \hA2, \h86, \h84, \hA0, \hC9, \hC5, \hE0,
               \hC0, \hF0, \hD0, \hB0, \h90, \h10, \h30, \hE6, \hC6, \h29,
               \h69, \hE9}

\* opcodes that read memory[pc + 1] | (memory[pc + 2] << 8)
TwoOperands == {\h4C, \h20, \hAD, \hBD, \hB9, \h8D, \hCD, \hEE, \hCE, \h4D,
                \hED}

ImplementedOpcodes == Implied \cup OneOperand \cup TwoOperands

BranchOpcodes == {\hF0, \hD0, \hB0, \h90, \h10, \h30}

\* how many operand bytes the branch of the elif chain for op reads
OperandReads(op) ==
    IF op \in TwoOperands THEN 2 ELSE IF op \in OneOperand THEN 1 ELSE 0

\* memory[pc + 1]
Operand1(c) == Peek(c.memory, c.pc + 1)

\* memory[pc + 1] | (memory[pc + 2] << 8)
AbsOperand(c) == Peek(c.memory, c.pc + 1) + 256 * Peek(c.memory, c.pc + 2)

\* mutant: the operand byte taken as unsigned
SignedOffsetUnsigned(b) == b

\* offset = memory[pc + 1]; if offset > 127: offset -= 256
SignedOffset(b) == IF b > 127 THEN b - 256 ELSE b

\* mutant: BEQ and BNE with each other's test
BranchTakenSwapped(op, st) ==
    CASE op = \hF0 -> ~get_z(st)
      [] op = \hD0 -> get_z(st)
      [] op = \hB0 -> get_c(st)
      [] op = \h90 -> ~get_c(st)
      [] op = \h10 -> ~get_n(st)
      [] op = \h30 -> get_n(st)

\* the flag test of each branch opcode
BranchTaken(op, st) ==
    CASE op = \hF0 -> get_z(st)
      [] op = \hD0 -> ~get_z(st)
      [] op = \hB0 -> get_c(st)
      [] op = \h90 -> ~get_c(st)
      [] op = \h10 -> ~get_n(st)
      [] op = \h30 -> get_n(st)

\* pc += 2; if <flag test>: pc += offset
Branch(c, op) ==
    LET next == c.pc + 2
    IN [c EXCEPT !.pc = IF BranchTaken(op, c.status)
                        THEN next + SignedOffset(Operand1(c))
                        ELSE next]

\* JMP abs
Jmp(c) == [c EXCEPT !.pc = AbsOperand(c)]

\* mutant: the address of the next instruction pushed
JsrPushesNext(c) ==
    LET addr == AbsOperand(c)
        ret_addr == c.pc + 3
        m1 == Poke(c.memory, \h0100 + c.sp, (ret_addr \div 256) % 256)
        sp1 == (c.sp - 1) % 256
        m2 == Poke(m1, \h0100 + sp1, ret_addr % 256)
        sp2 == (sp1 - 1) % 256
    IN [c EXCEPT !.memory = m2, !.sp = sp2, !.pc = addr]

\* JSR abs: push high byte, then low byte, of pc + 2
Jsr(c) ==
    LET addr == AbsOperand(c)
        ret_addr == c.pc + 2
        m1 == Poke(c.memory, \h0100 + c.sp, (ret_addr \div 256) % 256)
        sp1 == (c.sp - 1) % 256
        m2 == Poke(m1, \h0100 + sp1, ret_addr % 256)
        sp2 == (sp1 - 1) % 256
    IN [c EXCEPT !.memory = m2, !.sp = sp2, !.pc = addr]

\* a = v; set_z(a); set_n(a); pc += n
LoadA(c, v, n) ==
    [c EXCEPT !.a = v, !.status = SetZN(c.status, v), !.pc = c.pc + n]

LoadX(c, v, n) ==
    [c EXCEPT !.x = v, !.status = SetZN(c.status, v), !.pc = c.pc + n]

\* mutant: a load of Y that also clears Carry
LoadYClearsCarry(c, v, n) ==
    [c EXCEPT !.y = v, !.status = SetZN(set_c(c.status, FALSE), v),
              !.pc = c.pc + n]

\* mutant: Y kept to seven bits
LoadYSevenBits(c, v, n) ==
    [c EXCEPT !.y = v % 128, !.status = SetZN(c.status, v % 128),
              !.pc = c.pc + n]

LoadY(c, v, n) ==
    [c EXCEPT !.y = v, !.status = SetZN(c.status, v), !.pc = c.pc + n]

\* mutant: every store advancing as the zero-page store does
StoreAdvancesTwo(c, addr, v, n) ==
    [c EXCEPT !.memory = Poke(c.memory, addr, v), !.pc = c.pc + 2]

\* mutant: a store setting Zero and Negative from the byte, as a load does
StoreSetsFlags(c, addr, v, n) ==
    [c EXCEPT !.memory = Poke(c.memory, addr, v),
              !.status = SetZN(c.status, v), !.pc = c.pc + n]

\* memory[addr] = v; pc += n
Store(c, addr, v, n) ==
    [c EXCEPT !.memory = Poke(c.memory, addr, v), !.pc = c.pc + n]

\* mutant: the operand compared with the register, not the register with it
CompareSwapped(c, reg, val, n) ==
    [c EXCEPT !.status = SetZN(set_c(c.status, val >= reg), (val - reg) % 256),
              !.pc = c.pc + n]

\* mutant: Carry only when the register is strictly greater
CompareGreater(c, reg, val, n) ==
    [c EXCEPT !.status = SetZN(set_c(c.status, reg > val), (reg - val) % 256),
              !.pc = c.pc + n]

\* result = reg - val; set_c(reg >= val); set_z/set_n(result & 0xFF); pc += n
Compare(c, reg, val, n) ==
    [c EXCEPT !.status = SetZN(set_c(c.status, reg >= val), (reg - val) % 256),
              !.pc = c.pc + n]

\* mutant: INC/DEC setting the flags from the result without storing it
ModifyFlagsOnly(c, addr, d, n) ==
    [c EXCEPT !.status = SetZN(c.status, (Peek(c.memory, addr) + d) % 256),
              !.pc = c.pc + n]

\* memory[addr] = (memory[addr] + d) & 0xFF; set_z/set_n(memory[addr]); pc += n
Modify(c, addr, d, n) ==
    LET m1 == Poke(c.memory, addr, (Peek(c.memory, addr) + d) % 256)
    IN [c EXCEPT !.memory = m1,
                 !.status = SetZN(c.status, Peek(m1, addr)),
                 !.pc = c.pc + n]

\* mutant: the addition without the carry-in
AdcNoCarryIn(c, val) ==
    LET result == c.a + val
        v == result % 256
    IN [c EXCEPT !.a = v, !.status = SetZN(set_c(c.status, result > 255), v),
                 !.pc = c.pc + 2]

\* ADC imm
Adc(c, val) ==
    LET result == c.a + val + (IF get_c(c.status) THEN 1 ELSE 0)
        v == result % 256
    IN [c EXCEPT !.a = v, !.status = SetZN(set_c(c.status, result > 255), v),
                 !.pc = c.pc + 2]

\* mutant: the difference stored without the & 0xFF
SbcUnmasked(c, val, n) ==
    LET result == c.a - val - (IF get_c(c.status) THEN 0 ELSE 1)
    IN [c EXCEPT !.a = result,
                 !.status = SetZN(set_c(c.status, result >= 0), result % 256),
                 !.pc = c.pc + n]

\* SBC imm / abs
Sbc(c, val, n) ==
    LET result == c.a - val - (IF get_c(c.status) THEN 0 ELSE 1)
        v == result % 256
    IN [c EXCEPT !.a = v, !.status = SetZN(set_c(c.status, result >= 0), v),
                 !.pc = c.pc + n]

\* mutant: the old Carry shifted into bit 7, as ROR A does
LsrRotates(c) ==
    LET v == (c.a \div 2) + (IF get_c(c.status) THEN 128 ELSE 0)
    IN [c EXCEPT !.a = v,
                 !.status = SetZN(set_c(c.status, c.a % 2 = 1), v),
                 !.pc = c.pc + 1]

\* LSR A
Lsr(c) ==
    LET v == c.a \div 2
    IN [c EXCEPT !.a = v,
                 !.status = SetZN(set_c(c.status, c.a % 2 = 1), v),
                 !.pc = c.pc + 1]

\* the effect of the branch of the elif chain that op selects (op implemented,
\* op # RTS, operands readable)
Execute(c, op) ==
    CASE op = \h4C -> Jmp(c)
      [] op = \h20 -> Jsr(c)
      [] op = \hA9 -> LoadA(c, Operand1(c), 2)
      [] op = \hA5 -> LoadA(c, Peek(c.memory, Operand1(c)), 2)
      [] op = \hAD -> LoadA(c, Peek(c.memory, AbsOperand(c)), 3)
      [] op = \hBD -> LoadA(c, Peek(c.memory, (AbsOperand(c) + c.x) % MemSize), 3)
      [] op = \hB9 -> LoadA(c, Peek(c.memory, (AbsOperand(c) + c.y) % MemSize), 3)
      [] op = \h85 -> Store(c, Operand1(c), c.a, 2)
      [] op = \h8D -> Store(c, AbsOperand(c), c.a, 3)
      [] op = \hA2 -> LoadX(c, Operand1(c), 2)
      [] op = \h86 -> Store(c, Operand1(c), c.x, 2)
      [] op = \h84 -> Store(c, Operand1(c), c.y, 2)
      [] op = \hA0 -> LoadY(c, Operand1(c), 2)
      [] op = \hA8 -> LoadY(c, c.a, 1)
      [] op = \h98 -> LoadA(c, c.y, 1)
      [] op = \h8A -> LoadA(c, c.x, 1)
      [] op = \hAA -> LoadX(c, c.a, 1)
      [] op = \hC9 -> Compare(c, c.a, Operand1(c), 2)
      [] op = \hC5 -> Compare(c, c.a, Peek(c.memory, Operand1(c)), 2)
      [] op = \hCD -> Compare(c, c.a, Peek(c.memory, AbsOperand(c)), 3)
      [] op = \hE0 -> Compare(c, c.x, Operand1(c), 2)
      [] op = \hC0 -> Compare(c, c.y, Operand1(c), 2)
      [] op \in BranchOpcodes -> Branch(c, op)
      [] op = \hE6 -> Modify(c, Operand1(c), 1, 2)
      [] op = \hEE -> Modify(c, AbsOperand(c), 1, 3)
      [] op = \hC6 -> Modify(c, Operand1(c), -1, 2)
      [] op = \hCE -> Modify(c, AbsOperand(c), -1, 3)
      [] op = \hE8 -> LoadX(c, (c.x + 1) % 256, 1)
      [] op = \hCA -> LoadX(c, (c.x - 1) % 256, 1)
      [] op = \h88 -> LoadY(c, (c.y - 1) % 256, 1)
      [] op = \hC8 -> LoadY(c, (c.y + 1) % 256, 1)
      [] op = \h29 -> LoadA(c, BitAnd(c.a, Operand1(c)), 2)
      [] op = \h4D -> LoadA(c, BitXor(c.a, Peek(c.memory, AbsOperand(c))), 3)
      [] op = \h18 -> [c EXCEPT !.status = set_c(c.status, FALSE), !.pc = c.pc + 1]
      [] op = \h38 -> [c EXCEPT !.status = set_c(c.status, TRUE), !.pc = c.pc + 1]
      [] op = \h69 -> Adc(c, Operand1(c))
      [] op = \hE9 -> Sbc(c, Operand1(c), 2)
      [] op = \hED -> Sbc(c, Peek(c.memory, AbsOperand(c)), 3)
      [] op = \h4A -> Lsr(c)
      [] op = \hEA -> [c EXCEPT !.pc = c.pc + 1]

\* RTS: return True
Rts(c) == [res |-> "returned", c |-> c]

\* mutant: an unknown byte skipped as a one-byte instruction
UnsupportedSkipped(c) ==
    [res |-> "ok", c |-> [c EXCEPT !.pc = c.pc + 1, !.cycles = c.cycles + 1]]

\* else: raise ValueError(opcode, pc)
Unsupported(c) == [res |-> "unsupported", c |-> c]

\* an implemented instruction, then cycles += 1
Executed(c, op) ==
    LET d == Execute(c, op)
    IN [res |-> "ok", c |-> [d EXCEPT !.cycles = c.cycles + 1]]

\* an index outside the bytearray: IndexError leaves run() before any write
Fault(c) == [res |-> "fault", c |-> c]

\* one iteration of the while loop of run()
Iterate(c) ==
    IF ~IndexOK(c.pc) THEN Fault(c)
    ELSE LET op == Peek(c.memory, c.pc)
         IN IF op = \h60 THEN Rts(c)
            ELSE IF op \notin ImplementedOpcodes THEN Unsupported(c)
            ELSE IF ~IndexOK(c.pc + OperandReads(op)) THEN Fault(c)
            ELSE Executed(c, op)

-----------------------------------------------------------------------------
(* disasm_6502.py: the opcode table, opcode -> <<mnemonic, size, mode>>     *)

OPCODES ==
       (\h00 :> <<"BRK", 1, "impl">>)
    @@ (\h01 :> <<"ORA", 2, "indx">>)
    @@ (\h05 :> <<"ORA", 2, "zp">>)
    @@ (\h06 :> <<"ASL", 2, "zp">>)
    @@ (\h08 :> <<"PHP", 1, "impl">>)
    @@ (\h09 :> <<"ORA", 2, "imm">>)
    @@ (\h0A :> <<"ASL", 1, "acc">>)
    @@ (\h0D :> <<"ORA", 3, "abs">>)
    @@ (\h0E :> <<"ASL", 3, "abs">>)
    @@ (\h10 :> <<"BPL", 2, "rel">>)
    @@ (\h11 :> <<"ORA", 2, "indy">>)
    @@ (\h15 :> <<"ORA", 2, "zpx">>)
    @@ (\h16 :> <<"ASL", 2, "zpx">>)
    @@ (\h18 :> <<"CLC", 1, "impl">>)
    @@ (\h19 :> <<"ORA", 3, "absy">>)
    @@ (\h1D :> <<"ORA", 3, "absx">>)
    @@ (\h1E :> <<"ASL", 3, "absx">>)
    @@ (\h20 :> <<"JSR", 3, "abs">>)
    @@ (\h21 :> <<"AND", 2, "indx">>)
    @@ (\h24 :> <<"BIT", 2, "zp">>)
    @@ (\h25 :> <<"AND", 2, "zp">>)
    @@ (\h26 :> <<"ROL", 2, "zp">>)
    @@ (\h28 :> <<"PLP", 1, "impl">>)
    @@ (\h29 :> <<"AND", 2, "imm">>)
    @@ (\h2A :> <<"ROL", 1, "acc">>)
    @@ (\h2C :> <<"BIT", 3, "abs">>)
    @@ (\h2D :> <<"AND", 3, "abs">>)
    @@ (\h2E :> <<"ROL", 3, "abs">>)
    @@ (\h30 :> <<"BMI", 2, "rel">>)
    @@ (\h31 :> <<"AND", 2, "indy">>)
    @@ (\h35 :> <<"AND", 2, "zpx">>)
    @@ (\h36 :> <<"ROL", 2, "zpx">>)
    @@ (\h38 :> <<"SEC", 1, "impl">>)
    @@ (\h39 :> <<"AND", 3, "absy">>)
    @@ (\h3D :> <<"AND", 3, "absx">>)
    @@ (\h3E :> <<"ROL", 3, "absx">>)
    @@ (\h40 :> <<"RTI", 1, "impl">>)
    @@ (\h41 :> <<"EOR", 2, "indx">>)
    @@ (\h45 :> <<"EOR", 2, "zp">>)
    @@ (\h46 :> <<"LSR", 2, "zp">>)
    @@ (\h48 :> <<"PHA", 1, "impl">>)
    @@ (\h49 :> <<"EOR", 2, "imm">>)
    @@ (\h4A :> <<"LSR", 1, "acc">>)
    @@ (\h4C :> <<"JMP", 3, "abs">>)
    @@ (\h4D :> <<"EOR", 3, "abs">>)
    @@ (\h4E :> <<"LSR", 3, "abs">>)
    @@ (\h50 :> <<"BVC", 2, "rel">>)
    @@ (\h51 :> <<"EOR", 2, "indy">>)
    @@ (\h55 :> <<"EOR", 2, "zpx">>)
    @@ (\h56 :> <<"LSR", 2, "zpx">>)
    @@ (\h58 :> <<"CLI", 1, "impl">>)
    @@ (\h59 :> <<"EOR", 3, "absy">>)
    @@ (\h5D :> <<"EOR", 3, "absx">>)
    @@ (\h5E :> <<"LSR", 3, "absx">>)
    @@ (\h60 :> <<"RTS", 1, "impl">>)
    @@ (\h61 :> <<"ADC", 2, "indx">>)
    @@ (\h65 :> <<"ADC", 2, "zp">>)
    @@ (\h66 :> <<"ROR", 2, "zp">>)
    @@ (\h68 :> <<"PLA", 1, "impl">>)
    @@ (\h69 :> <<"ADC", 2, "imm">>)
    @@ (\h6A :> <<"ROR", 1, "acc">>)
    @@ (\h6C :> <<"JMP", 3, "ind">>)
    @@ (\h6D :> <<"ADC", 3, "abs">>)
    @@ (\h6E :> <<"ROR", 3, "abs">>)
    @@ (\h70 :> <<"BVS", 2, "rel">>)
    @@ (\h71 :> <<"ADC", 2, "indy">>)
    @@ (\h75 :> <<"ADC", 2, "zpx">>)
    @@ (\h76 :> <<"ROR", 2, "zpx">>)
    @@ (\h78 :> <<"SEI", 1, "impl">>)
    @@ (\h79 :> <<"ADC", 3, "absy">>)
    @@ (\h7D :> <<"ADC", 3, "absx">>)
    @@ (\h7E :> <<"ROR", 3, "absx">>)
    @@ (\h81 :> <<"STA", 2, "indx">>)
    @@ (\h84 :> <<"STY", 2, "zp">>)
    @@ (\h85 :> <<"STA", 2, "zp">>)
    @@ (\h86 :> <<"STX", 2, "zp">>)
    @@ (\h88 :> <<"DEY", 1, "impl">>)
    @@ (\h8A :> <<"TXA", 1, "impl">>)
    @@ (\h8C :> <<"STY", 3, "abs">>)
    @@ (\h8D :> <<"STA", 3, "abs">>)
    @@ (\h8E :> <<"STX", 3, "abs">>)
    @@ (\h90 :> <<"BCC", 2, "rel">>)
    @@ (\h91 :> <<"STA", 2, "indy">>)
    @@ (\h94 :> <<"STY", 2, "zpx">>)
    @@ (\h95 :> <<"STA", 2, "zpx">>)
    @@ (\h96 :> <<"STX", 2, "zpy">>)
    @@ (\h98 :> <<"TYA", 1, "impl">>)
    @@ (\h99 :> <<"STA", 3, "absy">>)
    @@ (\h9A :> <<"TXS", 1, "impl">>)
    @@ (\h9D :> <<"STA", 3, "absx">>)
    @@ (\hA0 :> <<"LDY", 2, "imm">>)
    @@ (\hA1 :> <<"LDA", 2, "indx">>)
    @@ (\hA2 :> <<"LDX", 2, "imm">>)
    @@ (\hA4 :> <<"LDY", 2, "zp">>)
    @@ (\hA5 :> <<"LDA", 2, "zp">>)
    @@ (\hA6 :> <<"LDX", 2, "zp">>)
    @@ (\hA8 :> <<"TAY", 1, "impl">>)
    @@ (\hA9 :> <<"LDA", 2, "imm">>)
    @@ (\hAA :> <<"TAX", 1, "impl">>)
    @@ (\hAC :> <<"LDY", 3, "abs">>)
    @@ (\hAD :> <<"LDA", 3, "abs">>)
    @@ (\hAE :> <<"LDX", 3, "abs">>)
    @@ (\hB0 :> <<"BCS", 2, "rel">>)
    @@ (\hB1 :> <<"LDA", 2, "indy">>)
    @@ (\hB4 :> <<"LDY", 2, "zpx">>)
    @@ (\hB5 :> <<"LDA", 2, "zpx">>)
    @@ (\hB6 :> <<"LDX", 2, "zpy">>)
    @@ (\hB8 :> <<"CLV", 1, "impl">>)
    @@ (\hB9 :> <<"LDA", 3, "absy">>)
    @@ (\hBA :> <<"TSX", 1, "impl">>)
    @@ (\hBC :> <<"LDY", 3, "absx">>)
    @@ (\hBD :> <<"LDA", 3, "absx">>)
    @@ (\hBE :> <<"LDX", 3, "absy">>)
    @@ (\hC0 :> <<"CPY", 2, "imm">>)
    @@ (\hC1 :> <<"CMP", 2, "indx">>)
    @@ (\hC4 :> <<"CPY", 2, "zp">>)
    @@ (\hC5 :> <<"CMP", 2, "zp">>)
    @@ (\hC6 :> <<"DEC", 2, "zp">>)
    @@ (\hC8 :> <<"INY", 1, "impl">>)
    @@ (\hC9 :> <<"CMP", 2, "imm">>)
    @@ (\hCA :> <<"DEX", 1, "impl">>)
    @@ (\hCC :> <<"CPY", 3, "abs">>)
    @@ (\hCD :> <<"CMP", 3, "abs">>)
    @@ (\hCE :> <<"DEC", 3, "abs">>)
    @@ (\hD0 :> <<"BNE", 2, "rel">>)
    @@ (\hD1 :> <<"CMP", 2, "indy">>)
    @@ (\hD5 :> <<"CMP", 2, "zpx">>)
    @@ (\hD6 :> <<"DEC", 2, "zpx">>)
    @@ (\hD8 :> <<"CLD", 1, "impl">>)
    @@ (\hD9 :> <<"CMP", 3, "absy">>)
    @@ (\hDD :> <<"CMP", 3, "absx">>)
    @@ (\hDE :> <<"DEC", 3, "absx">>)
    @@ (\hE0 :> <<"CPX", 2, "imm">>)
    @@ (\hE1 :> <<"SBC", 2, "indx">>)
    @@ (\hE4 :> <<"CPX", 2, "zp">>)
    @@ (\hE5 :> <<"SBC", 2, "zp">>)
    @@ (\hE6 :> <<"INC", 2, "zp">>)
    @@ (\hE8 :> <<"INX", 1, "impl">>)
    @@ (\hE9 :> <<"SBC", 2, "imm">>)
    @@ (\hEA :> <<"NOP", 1, "impl">>)
    @@ (\hEC :> <<"CPX", 3, "abs">>)
    @@ (\hED :> <<"SBC", 3, "abs">>)
    @@ (\hEE :> <<"INC", 3, "abs">>)
    @@ (\hF0 :> <<"BEQ", 2, "rel">>)
    @@ (\hF1 :> <<"SBC", 2, "indy">>)
    @@ (\hF5 :> <<"SBC", 2, "zpx">>)
    @@ (\hF6 :> <<"INC", 2, "zpx">>)
    @@ (\hF8 :> <<"SED", 1, "impl">>)
    @@ (\hF9 :> <<"SBC", 3, "absy">>)
    @@ (\hFD :> <<"SBC", 3, "absx">>)
    @@ (\hFE :> <<"INC", 3, "absx">>)

-----------------------------------------------------------------------------
(* disasm_6502.py: text formatting.  A text is a sequence of one-character *)
(* strings.                                                                *)

HexChars == <<"0", "1", "2", "3", "4", "5", "6", "7",
              "8", "9", "A", "B", "C", "D", "E", "F">>

RECURSIVE HexOf(_)
\* the hexadecimal digits of n >= 0, most significant first
HexOf(n) ==
    IF n < 16 THEN <<HexChars[n + 1]>>
    ELSE HexOf(n \div 16) \o <<HexChars[(n % 16) + 1]>>

RECURSIVE ZeroPad(_, _)
ZeroPad(t, w) == IF Len(t) >= w THEN t ELSE ZeroPad(<<"0">> \o t, w)

\* format(n, "0wX"): zero padded to width w, the sign counting in the width
FormatX(n, w) ==
    IF n >= 0 THEN ZeroPad(HexOf(n), w)
    ELSE <<"-">> \o ZeroPad(HexOf(-n), w - 1)

\* pattern in text (Python's substring test)
Contains(text, pattern) ==
    \E k \in 0..(Len(text) - Len(pattern)) :
        SubSeq(text, k + 1, k + Len(pattern)) = pattern

\* mutant: the sign boundary off by one
RelTargetBoundary(addr, op1) ==
    addr + 2 + (IF op1 <= 128 THEN op1 ELSE op1 - 256)

\* offset = op1 if op1 < 128 else op1 - 256; target = addr + 2 + offset
RelTarget(addr, op1) == addr + 2 + (IF op1 < 128 THEN op1 ELSE op1 - 256)

\* mutant: the operand bytes taken high byte first
FullAddrBigEndian(op1, op2) == op2 + 256 * op1

\* full_addr = op1 | (op2 << 8)
FullAddr(op1, op2) == op1 + 256 * op2

\* the operand text of a 2-byte instruction
Operand2(mode, addr, op1) ==
    LET b == FormatX(op1, 2)
    IN CASE mode = "imm"  -> <<"#", "$">> \o b
         [] mode = "zp"   -> <<"$">> \o b
         [] mode = "zpx"  -> <<"$">> \o b \o <<",", "X">>
         [] mode = "zpy"  -> <<"$">> \o b \o <<",", "Y">>
         [] mode = "indx" -> <<"(", "$">> \o b \o <<",", "X", ")">>
         [] mode = "indy" -> <<"(", "$">> \o b \o <<")", ",", "Y">>
         [] mode = "rel"  -> <<"$">> \o FormatX(RelTarget(addr, op1), 4)
         [] OTHER         -> <<"$">> \o b

\* the operand text of a 3-byte instruction
Operand3(mode, op1, op2) ==
    LET w == FormatX(FullAddr(op1, op2), 4)
    IN CASE mode = "abs"  -> <<"$">> \o w
         [] mode = "absx" -> <<"$">> \o w \o <<",", "X">>
         [] mode = "absy" -> <<"$">> \o w \o <<",", "Y">>
         [] mode = "ind"  -> <<"(", "$">> \o w \o <<")">>
         [] OTHER         -> <<"$">> \o w

\* mutant: the controller port left out
AnnotationNoJoy(operand) ==
    IF      Contains(operand, <<"2", "0", "0", "1">>) THEN " ; PPU_MASK"
    ELSE IF Contains(operand, <<"2", "0", "0", "0">>) THEN " ; PPU_CTRL"
    ELSE IF Contains(operand, <<"2", "0", "0", "2">>) THEN " ; PPU_STATUS"
    ELSE IF Contains(operand, <<"2", "0", "0", "6">>) THEN " ; PPU_ADDR"
    ELSE IF Contains(operand, <<"2", "0", "0", "7">>) THEN " ; PPU_DATA"
    ELSE ""

\* the annotation for known addresses
Annotation(operand) ==
    IF      Contains(operand, <<"2", "0", "0", "1">>) THEN " ; PPU_MASK"
    ELSE IF Contains(operand, <<"2", "0", "0", "0">>) THEN " ; PPU_CTRL"
    ELSE IF Contains(operand, <<"2", "0", "0", "2">>) THEN " ; PPU_STATUS"
    ELSE IF Contains(operand, <<"2", "0", "0", "6">>) THEN " ; PPU_ADDR"
    ELSE IF Contains(operand, <<"2", "0", "0", "7">>) THEN " ; PPU_DATA"
    ELSE IF Contains(operand, <<"4", "0", "1", "6">>) THEN " ; JOY1"
    ELSE ""

\* data[k] with Python's 0-based index
At(d, k) == d[k + 1]

\* mutant: the raw-bytes text showing the opcode only
RawTextOpcodeOnly(bytes) == FormatX(bytes[1], 2)

\* the raw-bytes text: the bytes as two hex digits each, space separated
RawText(bytes) ==
    LET f[k \in 0..Len(bytes)] ==
            IF k = 0 THEN <<>>
            ELSE IF k = 1 THEN FormatX(bytes[1], 2)
            ELSE f[k - 1] \o <<" ">> \o FormatX(bytes[k], 2)
    IN f[Len(bytes)]

RECURSIVE SpacePad(_, _)
\* format(t, "ws"): padded with spaces on the right to width w
SpacePad(t, w) == IF Len(t) >= w THEN t ELSE SpacePad(t \o <<" ">>, w)

\* mutant: the placeholder showing the byte after the opcode as well
PlaceholderWide(addr, opcode) ==
    [kind |-> "byte", addr |-> FormatX(addr, 4), rom_offset |-> <<>>,
     raw |-> FormatX(opcode, 2) \o <<" ">> \o FormatX(opcode, 2),
     mnemonic |-> ".byte", operand |-> <<>>, annotation |-> ""]

\* the line of an undefined opcode: "$addr: .byte $xx"
Placeholder(addr, opcode) ==
    [kind |-> "byte", addr |-> FormatX(addr, 4), rom_offset |-> <<>>,
     raw |-> FormatX(opcode, 2), mnemonic |-> ".byte", operand |-> <<>>,
     annotation |-> ""]

\* mutant: the offset shown is that of the byte after the instruction
InsnLineEndOffset(addr, rom_offset, bytes, mnemonic, operand) ==
    [kind |-> "insn", addr |-> FormatX(addr, 4),
     rom_offset |-> FormatX(rom_offset + Len(bytes), 4),
     raw |-> SpacePad(RawText(bytes), 12),
     mnemonic |-> mnemonic, operand |-> operand,
     annotation |-> Annotation(operand)]

\* the line of a decoded instruction: "$addr [rom_offset]: raw mnemonic operand annotation"
InsnLine(addr, rom_offset, bytes, mnemonic, operand) ==
    [kind |-> "insn", addr |-> FormatX(addr, 4),
     rom_offset |-> FormatX(rom_offset, 4), raw |-> SpacePad(RawText(bytes), 12),
     mnemonic |-> mnemonic, operand |-> operand,
     annotation |-> Annotation(operand)]

\* mutant: the partial instruction skipped and the loop continued
BreakSkipsByte(k, ls) == [brk |-> FALSE, i |-> k + 1, lines |-> ls]

\* break: the loop is left with i and lines as they are
Break(k, ls) == [brk |-> TRUE, i |-> k, lines |-> ls]

\* one iteration of the while loop of disasm: [brk, i, lines]
Decode(d, s, b, k, ls) ==
    LET opcode == At(d, k)
    IN IF opcode \notin DOMAIN OPCODES
       THEN [brk |-> FALSE, i |-> k + 1,
             lines |-> Append(ls, Placeholder(s + k, opcode))]
       ELSE LET mnemonic == OPCODES[opcode][1]
                size == OPCODES[opcode][2]
                mode == OPCODES[opcode][3]
                addr == s + k
                rom_offset == b + k
            IN IF size = 1
               THEN [brk |-> FALSE, i |-> k + size,
                     lines |-> Append(ls, InsnLine(addr, rom_offset,
                                   <<opcode>>, mnemonic, <<>>))]
               ELSE IF size = 2
               THEN IF k + 1 >= Len(d)
                    THEN Break(k, ls)
                    ELSE [brk |-> FALSE, i |-> k + size,
                          lines |-> Append(ls, InsnLine(addr, rom_offset,
                                        <<opcode, At(d, k + 1)>>, mnemonic,
                                        Operand2(mode, addr, At(d, k + 1))))]
               ELSE IF k + 2 >= Len(d)
                    THEN Break(k, ls)
                    ELSE [brk |-> FALSE, i |-> k + size,
                          lines |-> Append(ls, InsnLine(addr, rom_offset,
                                        <<opcode, At(d, k + 1), At(d, k + 2)>>,
                                        mnemonic,
                                        Operand3(mode, At(d, k + 1), At(d, k + 2))))]

-----------------------------------------------------------------------------
(* patch_vs_cpu.py: the routines the harness runs, as the bytes the patch    *)
(* assembles (branch offsets filled in)                                      *)

\* toggle_routine: cycles 1P -> 2P -> VS CPU -> 1P on $0727 and $04
ToggleRoutine ==
    <<\hAD, \h27, \h07, \hC9, \h01, \hF0, \h07, \hA5, \h04, \hD0, \h0B, \hE6,
      \h04, \h60, \hEE, \h27, \h07, \hA9, \h00, \h85, \h04, \h60, \hCE, \h27,
      \h07, \hD0, \hF6>>

\* level_mirror_routine: $F6 to $5B, $F8 to $5C
MirrorRoutine ==
    <<\hA5, \hF6, \h85, \h5B, \hA5, \hF8, \h85, \h5C, \h60>>

\* ai_routine (v17)
AiRoutine ==
    <<\h85, \hF6, \hA5, \h04, \hC9, \h01, \hD0, \h5A, \hA5, \hF5, \h85, \hF6,
      \hA5, \h46, \hC9, \h04, \h90, \h50, \hA9, \h03, \h85, \h00, \hA9, \hFF,
      \h85, \h01, \hA0, \h00, \hB9, \h00, \h05, \h38, \hE9, \hD0, \hC9, \h03,
      \hB0, \h1C, \hCD, \h81, \h03, \hD0, \h17, \h98, \h29, \h07, \hAA, \hBD,
      \h00, \h05, \hC9, \hFF, \hD0, \h0C, \h98, \h4A, \h4A, \h4A, \hC5, \h01,
      \hB0, \h04, \h85, \h01, \h86, \h00, \hC8, \hC0, \h80, \h90, \hD5, \hAD,
      \h81, \h03, \h4D, \h82, \h03, \hD0, \h05, \hA9, \h40, \h85, \hF6, \h60,
      \hAD, \h85, \h03, \hC5, \h00, \hF0, \h08, \hA0, \h01, \h90, \h01, \hC8,
      \h84, \hF6, \h60, \hA9, \h04, \h85, \hF6, \h60>>

\* where the harness loads them (run_toggle, run_mirror, run_ai)
ToggleAddr == \hFF40
MirrorAddr == \hFF5B
AiAddr == MirrorAddr + Len(MirrorRoutine)

-----------------------------------------------------------------------------
(* The inputs explored: routines, load addresses, budgets, decoder calls   *)

MaxBudget == 4
MaxResets == 1
MaxToggles == 6
DefaultMaxCycles == 10000

Budgets == 1..MaxBudget

Lo(n) == n % 256
Hi(n) == (n \div 256) % 256

Scn(budget, sp0, addr, code) ==
    [budget |-> budget, sp |-> sp0, addr |-> addr, code |-> code]

SampleB1 == {\h00, \h60, \h7F, \h80, \hFE}
SampleB2 == {\h00, \h60, \h80, \hFF}

\* instruction sequences that leave Carry, Zero or Negative set
FlagPrefixes ==
    {<<\h38>>, <<\hA9, \h00>>, <<\hA9, \h80>>,
     <<\h38, \hA9, \h00>>, <<\h38, \hA9, \h80>>}

\* one implemented instruction with sample operand bytes, then RTS
Singles ==
    {Scn(MaxBudget, \hFF, base, <<op, b1, b2, \h60>>) :
        op \in ImplementedOpcodes, b1 \in SampleB1, b2 \in SampleB2,
        base \in {\h0000, \h8000}}

\* one byte the executor does not implement
Unknowns ==
    {Scn(MaxBudget, \hFF, \h8000, <<op>>) : op \in Byte \ ImplementedOpcodes}

\* an instruction whose bytes end at the last byte of memory, or run past it
AtTop ==
    {Scn(MaxBudget, \hFF, MemSize - n, SubSeq(<<op, b1, b2>>, 1, n)) :
        op \in ImplementedOpcodes \cup {\h00}, b1 \in {\h00, \h80},
        b2 \in {\h00, \hFF}, n \in 1..3}

\* a branch or jump to itself, under every budget
Loops ==
    {Scn(b, \hFF, base, <<br, \hFE>>) :
        b \in Budgets, br \in BranchOpcodes, base \in {\h0000, \h8000, \hFFFE}}
    \cup
    {Scn(b, \hFF, base, <<\h4C, Lo(base), Hi(base)>>) :
        b \in Budgets, base \in {\h0000, \h8000, \hFFFD}}
    \cup
    {Scn(DefaultMaxCycles, \hFF, \h8000, <<\hD0, \hFE>>)}

\* a branch after instructions that set flags
FlaggedBranches ==
    {Scn(MaxBudget, \hFF, \h8000, p \o <<br, b1, \h60>>) :
        p \in FlagPrefixes, br \in BranchOpcodes, b1 \in SampleB1}

\* a call whose target holds RTS (at distance d) from several stack pointers
Calls ==
    {Scn(MaxBudget, s, base,
         <<\h20, Lo(base + 3 + d), Hi(base + 3 + d)>>
            \o [k \in 1..d |-> \hEA] \o <<\h60>>) :
        s \in {\hFF, \h80, \h01, \h00}, base \in {\h0000, \h8000, \hFFF0},
        d \in 0..2}

\* register and operand values: the ends of the byte range, both sides of the
\* sign bit, and two mixed bit patterns
SampleV == {\h00, \h01, \h02, \h55, \h7F, \h80, \h81, \hAA, \hFE, \hFF}

\* Carry cleared or set, a register loaded with v, then one instruction on it:
\* with an immediate operand m, with m in a zero-page or absolute cell that
\* follows the routine, or with no operand
Alu ==
    {Scn(MaxBudget, \hFF, \h8000, <<c, \hA9, v, op, m, \h60>>) :
        c \in {\h18, \h38}, v \in SampleV, m \in SampleV,
        op \in {\hA9, \hC9, \h29, \h69, \hE9}}
    \cup
    {Scn(MaxBudget, \hFF, \h0000, <<c, \hA9, v, op, \h06, \h60, m>>) :
        c \in {\h18, \h38}, v \in SampleV, m \in SampleV,
        op \in {\hA5, \hC5, \hE6, \hC6}}
    \cup
    {Scn(MaxBudget, \hFF, \h8000, <<c, \hA9, v, op, \h07, \h80, \h60, m>>) :
        c \in {\h18, \h38}, v \in SampleV, m \in SampleV,
        op \in {\hAD, \hBD, \hB9, \hCD, \hEE, \hCE, \h4D, \hED}}
    \cup
    {Scn(MaxBudget, \hFF, \h8000, <<c, ld[1], v, ld[2], m, \h60>>) :
        c \in {\h18, \h38}, v \in SampleV, m \in SampleV,
        ld \in {<<\hA2, \hE0>>, <<\hA0, \hC0>>}}
    \cup
    {Scn(MaxBudget, \hFF, \h8000, <<c, ld[1], v, ld[2], \h60>>) :
        c \in {\h18, \h38}, v \in SampleV,
        ld \in {<<\hA9, \hAA>>, <<\hA9, \hA8>>, <<\hA9, \h4A>>,
                <<\hA2, \h8A>>, <<\hA2, \hE8>>, <<\hA2, \hCA>>,
                <<\hA0, \h98>>, <<\hA0, \hC8>>, <<\hA0, \h88>>}}

\* a register loaded with v, then stored to a zero-page or absolute cell
Stores ==
    {Scn(MaxBudget, \hFF, \h8000, <<ld[1], v, ld[2], d, \h60>>) :
        v \in SampleV, d \in {\h00, \h04, \hF6, \hFF},
        ld \in {<<\hA9, \h85>>, <<\hA2, \h86>>, <<\hA0, \h84>>}}
    \cup
    {Scn(MaxBudget, \hFF, \h8000, <<\hA9, v, \h8D, Lo(t), Hi(t), \h60>>) :
        v \in SampleV, t \in {\h00F6, \h0200, \h0727, \hFFFF}}

\* Carry set, then one implemented instruction
CarryKept ==
    {Scn(MaxBudget, \hFF, \h8000, <<\h38, op, b1, b2, \h60>>) :
        op \in ImplementedOpcodes, b1 \in {\h00, \h80}, b2 \in {\h00, \h60}}

\* routines that leave a byte in a page reset() clears ($00, $03), fills
\* ($04) or does not assign ($02, $06, $08), or nothing but their own bytes
Histories ==
    {Scn(MaxBudget, \hFF, \h8000, <<\hA9, \h80, \h8D, \h00, page, \h60>>) :
        page \in {\h00, \h02, \h03, \h04, \h06, \h08}}
    \cup
    {Scn(MaxBudget, \hFF, \h8000, <<\hEA, \hEA, \h60>>)}

\* routines run after reset(): a load from each of those pages, a subtraction
\* that borrows, and a routine shorter than the one loaded before it, at the
\* same and at another address
Reruns ==
    {Scn(MaxBudget, \hFF, base, <<\hAD, \h00, page, \h60>>) :
        page \in {\h00, \h02, \h03, \h04, \h06, \h08},
        base \in {\h8000, \h9000}}
    \cup
    {Scn(MaxBudget, \hFF, base, code) :
        code \in {<<\hEA>>, <<\hE9, \h01, \h60>>}, base \in {\h8000, \h9000}}

\* a harness test: the accumulator and the memory bytes set after reset(),
\* then the routine loaded and run
Test(a0, writes, addr, code) ==
    [a |-> a0, writes |-> writes, addr |-> addr, code |-> code]

\* "store the accumulator to zero page d; return", the accumulator preloaded
StoreTests ==
    {Test(v, <<>>, \h8000, <<\h85, d, \h60>>) :
        v \in SampleV, d \in {\h00, \h04, \hF6, \hFF}}

\* run_toggle(player_mode, vs_cpu_flag)
ToggleTests ==
    {Test(0, <<<<\h0727, pr[1]>>, <<\h04, pr[2]>>>>, ToggleAddr, ToggleRoutine) :
        pr \in {<<1, 0>>, <<1, 1>>, <<0, 0>>, <<3, 0>>, <<0, 5>>, <<\hFF, \hFF>>}}

\* run_mirror: the player-2 input and held bytes
MirrorTests ==
    {Test(0, <<<<\hF6, v>>, <<\hF8, w>>>>, MirrorAddr, MirrorRoutine) :
        v \in {\h00, \h02, \hFF}, w \in {\h00, \h02, \h80}}

\* run_ai outside VS-CPU gameplay: the flag not 1, or the game mode below 4
AiIdleTests ==
    {Test(v, <<<<\h04, flag>>, <<\h46, mode>>, <<\hF5, \h08>>,
               <<\h00, \h55>>, <<\h01, \hAA>>>>, AiAddr, AiRoutine) :
        v \in {\h00, \h02, \h80}, flag \in {\h00, \h02, \hFF},
        mode \in {\h00, \h05}}
    \cup
    {Test(v, <<<<\h04, \h01>>, <<\h46, mode>>, <<\hF5, p1>>,
               <<\h00, \h55>>, <<\h01, \hAA>>>>, AiAddr, AiRoutine) :
        v \in {\h00, \h02}, mode \in {\h00, \h02, \h03},
        p1 \in {\h00, \h08, \hFF}}

\* player-2 playfields as <<offset, tile>> writes into $0500-$057F, which
\* reset() fills with 0xFF (empty): none; a yellow-red-blue trio with other
\* tiles; a virus under an occupied column top and one under a free top; two
\* in free columns; two in one row; one in the top row and one in the last
\* cell; one in the first cell of the second row
Playfields ==
    {<<>>,
     <<<<10, \hD0>>, <<20, \hD2>>, <<30, \hD3>>, <<31, \hCF>>>>,
     <<<<3, \h50>>, <<27, \hD1>>, <<42, \hD1>>>>,
     <<<<26, \hD1>>, <<85, \hD1>>>>,
     <<<<17, \hD1>>, <<21, \hD1>>>>,
     <<<<5, \hD1>>, <<127, \hD1>>>>,
     <<<<8, \hD1>>, <<127, \hD0>>>>}

\* the capsule: left colour, right colour, column
Capsules ==
    {<<1, 1, 3>>, <<1, 0, 0>>, <<1, 0, 2>>, <<1, 0, 7>>, <<0, 1, 2>>,
     <<2, 0, 4>>, <<3, 0, 3>>}

\* run_ai in VS-CPU gameplay: flag 1, game mode 4 or more, and the capsule
\* and playfield the game would hold
AiGameTests ==
    {Test(0, <<<<\h04, \h01>>, <<\h46, \h04>>, <<\hF5, \h08>>,
               <<\h00, \h55>>, <<\h01, \hAA>>,
               <<\h0381, cap[1]>>, <<\h0382, cap[2]>>, <<\h0385, cap[3]>>>>
              \o [k \in DOMAIN pf |-> <<\h0500 + pf[k][1], pf[k][2]>>],
          AiAddr, AiRoutine) :
        cap \in Capsules, pf \in Playfields}
    \cup
    {Test(\h80, <<<<\h04, \h01>>, <<\h46, \hFF>>, <<\hF5, \h00>>,
                  <<\h0381, \h01>>, <<\h0382, \h02>>, <<\h0385, \h05>>,
                  <<\h0500 + 5 * 8 + 6, \hD1>>>>,
          AiAddr, AiRoutine)}

Tests ==
    StoreTests \cup ToggleTests \cup MirrorTests \cup AiIdleTests
        \cup AiGameTests

Scenarios ==
    Singles \cup Unknowns \cup AtTop \cup Loops \cup FlaggedBranches \cup Calls
        \cup Alu \cup Stores \cup CarryKept \cup Histories

\* the budgets and stack pointers the scenarios start from
Configs == {<<s.budget, s.sp>> : s \in Scenarios}

RelOpcodes == {op \in DOMAIN OPCODES : OPCODES[op][3] = "rel"}

\* a relative branch with every displacement byte, at several addresses
DCall(d, s, b) == [data |-> d, start_addr |-> s, base_offset |-> b]

\* operand bytes: the low and high bytes of the annotated addresses, and others
OperandB1 == {\h00, \h01, \h02, \h06, \h07, \h16, \h20, \h40, \h80, \hFF}
OperandB2 == {\h00, \h01, \h20, \h40, \hFF}

\* every opcode of the table with its operand bytes, after and before a
\* one-byte instruction
Encodings ==
    {DCall(<<\hEA>> \o SubSeq(<<op, b1, b2>>, 1, OPCODES[op][2]) \o <<\h60>>,
           \h8000, \h10) :
        op \in DOMAIN OPCODES, b1 \in OperandB1, b2 \in OperandB2}

\* every byte value as the last byte, or the last but one, of the buffer
Endings ==
    {DCall(<<\hEA>> \o SubSeq(<<op, b1>>, 1, n), \h8000, \h10) :
        op \in Byte, b1 \in {\h00, \h20}, n \in 1..2}

\* every byte value the table lacks: first, between instructions, twice in a
\* row, and last
Undefined ==
    {DCall(<<b, \hA9, \h01, b, b, \h8D, \h16, \h40, b>>, \h8000, \h10) :
        b \in Byte \ DOMAIN OPCODES}

\* an absolute store with every low byte and every high byte
Absolutes ==
    {DCall(<<\h8D, lo, hi>>, \h8000, \h10) :
        lo \in Byte, hi \in OperandB2 \cup {\h7F, \h80}}
    \cup
    {DCall(<<\h8D, lo, hi>>, \h8000, \h10) :
        lo \in OperandB1, hi \in Byte}

\* a relative branch with every displacement byte, at several addresses, and
\* with the targets around $2000 and $4016
Branches ==
    {DCall(<<op, b>>, s, \h10) :
        op \in RelOpcodes, b \in Byte, s \in {\h0000, \h8000, \hFFFE}}
    \cup
    {DCall(<<op, b>>, s, \h10) :
        op \in RelOpcodes, b \in {\hF0, \hFE, \hFF, \h00, \h01, \h02, \h10},
        s \in {\h1FFE, \h1FFF, \h2000, \h2004, \h4004, \h4014}}

DisasmCalls ==
    Branches \cup Encodings \cup Endings \cup Undefined \cup Absolutes
    \cup
    {DCall(d, \h8000, \h10) :
        d \in {<<\hA9, \h00, \h8D, \h01, \h20>>, <<\hEA, \h02, \hA9>>,
               <<\h60, \h4C, \h00>>}}

-----------------------------------------------------------------------------
(* The state machine                                                       *)

NoStep == [op |-> -1]
NoEntry == [cycles |-> -1]
NoErr == [opcode |-> -1, pc |-> 0]

\* the fields of the CPU as one record
Cpu == [a |-> a, x |-> x, y |-> y, sp |-> sp, pc |-> pc, status |-> status,
        memory |-> memory, cycles |-> cycles]

\* CPU6502.__init__, and no disasm call in progress
Init ==
    /\ a = 0 /\ x = 0 /\ y = 0
    /\ sp = \hFF
    /\ pc = 0
    /\ status = 0
    /\ memory = ZeroMemory
    /\ cycles = 0
    /\ max_cycles = DefaultMaxCycles
    /\ ctl = "new" /\ outcome = "none" /\ err = NoErr
    /\ resets = 0
    /\ first = <<>>
    /\ entry = NoEntry /\ last = NoStep
    /\ routine = [addr |-> 0, code |-> <<>>]
    /\ data = <<>> /\ start_addr = 0 /\ base_offset = 0
    /\ i = 0 /\ lines = <<>> /\ dctl = "idle"

\* the harness sets the step budget and the stack pointer of a new CPU
Configure(budget, sp0) ==
    /\ ctl = "new"
    /\ max_cycles' = budget
    /\ sp' = sp0
    /\ ctl' = "setup"
    /\ UNCHANGED <<a, x, y, pc, status, memory, cycles, routine, outcome, err, resets, first, entry, last, disvars>>

\* reset(): registers, flags and step counter to their initial values, the
\* low pages cleared, the playfields filled; pc, max_cycles and the rest of
\* memory are not assigned
Reset ==
    /\ ctl \in {"setup", "done"}
    /\ resets < MaxResets
    /\ a' = 0 /\ x' = 0 /\ y' = 0
    /\ sp' = \hFF
    /\ status' = 0
    /\ cycles' = 0
    /\ memory' = ResetMemory(memory)
    /\ ctl' = "setup"
    /\ resets' = resets + 1
    /\ UNCHANGED <<pc, max_cycles, routine, outcome, err, first, entry, last, disvars>>

\* for i, b in enumerate(code): memory[addr + i] = b
\* (the indices addr .. addr + len(code) - 1 valid: distinct cells, each
\* assigned once, so the loop's result is built in one step)
LoadBytes(m, addr, code) ==
    LET at == {Cell(addr + n) : n \in 0..(Len(code) - 1)}
        byte(c) == IF c \in at THEN code[((c - addr) % MemSize) + 1]
                   ELSE m.cells[c]
        dom == {c \in DOMAIN m.cells \cup at : byte(c) # Background(m, c)}
    IN [m EXCEPT !.cells = [c \in dom |-> byte(c)]]

\* load_routine(addr, code), the routine fitting in memory
LoadRoutine(addr, code) ==
    /\ ctl = "setup"
    /\ addr + Len(code) <= MemSize
    /\ memory' = LoadBytes(memory, addr, code)
    /\ routine' = [addr |-> addr, code |-> code]
    /\ ctl' = "loaded"
    /\ pc' = pc
    /\ UNCHANGED <<a, x, y, sp, status, cycles, max_cycles, outcome, err, resets, first, entry, last, disvars>>

RECURSIVE WriteAll(_, _)
\* memory[addr] = value for each <<addr, value>> of writes, in order
WriteAll(m, writes) ==
    IF writes = <<>> THEN m
    ELSE WriteAll(Poke(m, Head(writes)[1], Head(writes)[2]), Tail(writes))

\* the body of run_toggle / run_mirror / run_ai after reset(): the fixture
\* writes, cpu.a, then load_routine
Prepare(a0, writes, addr, code) ==
    /\ ctl = "setup"
    /\ a' = a0
    /\ memory' = LoadBytes(WriteAll(memory, writes), addr, code)
    /\ routine' = [addr |-> addr, code |-> code]
    /\ first' = <<Peek(memory', \h0727), Peek(memory', \h04)>>
    /\ ctl' = "loaded"
    /\ UNCHANGED <<x, y, sp, pc, status, cycles, max_cycles, outcome, err, resets, entry, last, disvars>>

\* run_toggle called again with the pair the last call returned: reset(),
\* the two fixture writes, load_routine
Retoggle ==
    /\ ctl = "done"
    /\ resets < MaxToggles
    /\ a' = 0 /\ x' = 0 /\ y' = 0
    /\ sp' = \hFF
    /\ status' = 0
    /\ cycles' = 0
    /\ memory' = LoadBytes(WriteAll(ResetMemory(memory),
                                    <<<<\h0727, Peek(memory, \h0727)>>,
                                      <<\h04, Peek(memory, \h04)>>>>),
                           ToggleAddr, ToggleRoutine)
    /\ routine' = [addr |-> ToggleAddr, code |-> ToggleRoutine]
    /\ resets' = resets + 1
    /\ ctl' = "loaded"
    /\ UNCHANGED <<pc, max_cycles, outcome, err, first, entry, last, disvars>>

\* run(start_addr): pc = start_addr, then the loop
Run(start) ==
    /\ ctl = "loaded"
    /\ pc' = start
    /\ ctl' = "running"
    /\ entry' = [Cpu EXCEPT !.pc = start]
    /\ last' = NoStep
    /\ outcome' = "none"
    /\ err' = NoErr
    /\ UNCHANGED <<a, x, y, sp, status, memory, cycles, max_cycles, routine, resets, first, disvars>>

\* while cycles < max_cycles: one iteration
Step ==
    /\ ctl = "running"
    /\ cycles < max_cycles
    /\ LET r == Iterate(Cpu)
       IN /\ a' = r.c.a /\ x' = r.c.x /\ y' = r.c.y /\ sp' = r.c.sp
          /\ pc' = r.c.pc /\ status' = r.c.status /\ memory' = r.c.memory
          /\ cycles' = r.c.cycles
          /\ outcome' = IF r.res = "ok" THEN outcome ELSE r.res
          /\ ctl' = IF r.res = "ok" THEN "running" ELSE "done"
          /\ err' = IF r.res = "unsupported"
                    THEN [opcode |-> Peek(memory, pc), pc |-> pc]
                    ELSE err
          /\ last' = [op |-> IF IndexOK(pc) THEN Peek(memory, pc) ELSE -2,
                      res |-> r.res, cpu |-> Cpu]
    /\ UNCHANGED <<max_cycles, routine, resets, first, entry, disvars>>

\* the loop condition fails: return False
ReturnFalse ==
    /\ ctl = "running"
    /\ cycles >= max_cycles
    /\ outcome' = "budget"
    /\ ctl' = "done"
    /\ UNCHANGED <<cpuvars, routine, err, resets, first, entry, last, disvars>>

Next ==
    \/ ctl = "new" /\ \E c \in Configs : Configure(c[1], c[2])
    \/ ctl = "setup" /\ resets = 0 /\ \E s \in Scenarios :
          max_cycles = s.budget /\ sp = s.sp /\ LoadRoutine(s.addr, s.code)
    \/ ctl = "setup" /\ resets > 0 /\ \E s \in Reruns :
          max_cycles = s.budget /\ sp = s.sp /\ LoadRoutine(s.addr, s.code)
    \/ ctl = "setup" /\ resets > 0 /\ routine.code = <<>>
          /\ max_cycles = DefaultMaxCycles
          /\ \E t \in Tests : Prepare(t.a, t.writes, t.addr, t.code)
    \/ ((ctl = "setup" /\ resets = 0) \/ \E h \in Histories : routine.code = h.code)
          /\ Reset
    \/ routine.code = ToggleRoutine /\ outcome = "returned" /\ Retoggle
    \/ Run(routine.addr)
    \/ Step
    \/ ReturnFalse

Spec == Init /\ [][Next]_vars

-----------------------------------------------------------------------------
(* disasm(data, start_addr, base_offset)                                   *)

DisasmCall(d, s, b) ==
    /\ ctl = "new" /\ dctl = "idle"
    /\ data' = d /\ start_addr' = s /\ base_offset' = b
    /\ i' = 0 /\ lines' = <<>>
    /\ dctl' = "loop"
    /\ UNCHANGED <<cpuvars, runvars>>

\* while i < len(data): one iteration
DisasmStep ==
    /\ dctl = "loop"
    /\ i < Len(data)
    /\ LET r == Decode(data, start_addr, base_offset, i, lines)
       IN /\ i' = r.i
          /\ lines' = r.lines
          /\ dctl' = IF r.brk THEN "done" ELSE "loop"
    /\ UNCHANGED <<data, start_addr, base_offset, cpuvars, runvars>>

\* return lines
DisasmReturn ==
    /\ dctl = "loop"
    /\ i >= Len(data)
    /\ dctl' = "done"
    /\ UNCHANGED <<data, start_addr, base_offset, i, lines, cpuvars, runvars>>

NextDisasm ==
    \/ dctl = "idle" /\ \E c \in DisasmCalls :
          DisasmCall(c.data, c.start_addr, c.base_offset)
    \/ DisasmStep
    \/ DisasmReturn

SpecDisasm == Init /\ [][NextDisasm]_vars

-----------------------------------------------------------------------------
(* Properties of the executor                                              *)

\* run() has been entered and no harness step came after it
InRun == ctl \in {"running", "done"}

\* the latest loop iteration executed an instruction with opcode op
Did(op) == last.op = op /\ last.res = "ok"

\* the 16-bit little-endian operand of the instruction at c.pc
Target16(c) == Peek(c.memory, c.pc + 1) + 256 * Peek(c.memory, c.pc + 2)

\* the run was entered at a call whose target holds RTS, and the call fits
CallToReturn ==
    /\ InRun
    /\ Peek(entry.memory, entry.pc) = \h20
    /\ entry.pc + 2 < MemSize
    /\ Peek(entry.memory, Target16(entry)) = \h60

\* C1: subroutine law. A call at A whose target holds RTS, run to its end,
\* leaves the program counter at A + 3 and the stack pointer at its pre-call
\* value.
C1_SubroutineLaw ==
    (CallToReturn /\ ctl = "done")
        => (pc = entry.pc + 3 /\ sp = entry.sp)

\* C2: whenever RTS is fetched, the stack pointer is incremented twice and
\* the program counter becomes the popped 16-bit address plus one.
C2_ReturnPops ==
    (InRun /\ last.op = \h60)
        => LET s == last.cpu.sp
               lo == Peek(last.cpu.memory, \h0100 + ((s + 1) % 256))
               hi == Peek(last.cpu.memory, \h0100 + ((s + 2) % 256))
           IN /\ sp = (s + 2) % 256
              /\ pc = lo + 256 * hi + 1

\* C3: run() ends in one of exactly three ways: normal return, budget
\* exceeded, unsupported opcode; an index fault is not reachable.
C3_ThreeOutcomes ==
    /\ outcome \in {"none", "returned", "budget", "unsupported"}
    /\ ctl = "done" => outcome # "none"

\* C4: when the byte fetched is not an implemented opcode, run() halts at that
\* iteration reporting that byte and the program counter, and registers,
\* flags, program counter, step counter and memory are as before the fetch.
C4_UnsupportedHalts ==
    (InRun /\ last.op >= 0 /\ last.op \notin ImplementedOpcodes)
        => /\ ctl = "done"
           /\ outcome = "unsupported"
           /\ err = [opcode |-> last.op, pc |-> last.cpu.pc]
           /\ last.op = Peek(last.cpu.memory, last.cpu.pc)
           /\ Cpu = last.cpu

\* C4 witness: an unsupported byte met after an instruction was executed
C4_Witness ==
    /\ outcome = "unsupported"
    /\ cycles > 0
    /\ err.opcode = 0
    /\ err.pc # entry.pc

\* the flag test of a branch opcode, as status bits: BEQ Zero set, BNE Zero
\* clear, BCS Carry set, BCC Carry clear, BMI Negative set, BPL Negative clear
FlagHolds(op, st) ==
    LET zero == (st \div 2) % 2 = 1
        carry == st % 2 = 1
        negative == (st \div 128) % 2 = 1
    IN \/ op = \hF0 /\ zero
       \/ op = \hD0 /\ ~zero
       \/ op = \hB0 /\ carry
       \/ op = \h90 /\ ~carry
       \/ op = \h30 /\ negative
       \/ op = \h10 /\ ~negative

\* the displacement a branch operand byte stands for
Displacement(b) == ((b + 128) % 256) - 128

\* the routine entered is nothing but a jump to itself, or a branch to itself
\* whose condition holds
SelfLoop ==
    /\ InRun
    /\ LET op == Peek(entry.memory, entry.pc)
       IN \/ /\ op = \h4C
             /\ entry.pc + 2 < MemSize
             /\ Target16(entry) = entry.pc
          \/ /\ op \in BranchOpcodes
             /\ entry.pc + 1 < MemSize
             /\ Peek(entry.memory, entry.pc + 1) = \hFE
             /\ FlagHolds(op, entry.status)

\* C5: a routine that is solely a branch (or jump) to itself with a true
\* condition never returns normally: the run stays at that address and ends
\* with budget exceeded once max_cycles steps have been executed.
C5_SelfLoopExhaustsBudget ==
    SelfLoop
        => /\ outcome \in {"none", "budget"}
           /\ pc = entry.pc
           /\ cycles <= max_cycles
           /\ ctl = "done" => (outcome = "budget" /\ cycles = max_cycles)

\* C5 witness: the self-branch ran out of the default budget of 10000 steps
C5_Witness ==
    /\ SelfLoop
    /\ ctl = "done"
    /\ outcome = "budget"
    /\ max_cycles = DefaultMaxCycles
    /\ cycles = DefaultMaxCycles

\* C6: the program counter is always within the addressable space.
C6_PcInRange == pc >= 0 /\ pc <= \hFFFF

\* the bytes of memory m1 and m2 agree at every address outside the set S
SameOutside(m1, m2, S) ==
    /\ m1.fill = m2.fill
    /\ \A k \in (DOMAIN m1.cells \cup DOMAIN m2.cells) \ S :
          Peek(m1, k) = Peek(m2, k)

\* C7: JSR at A with stack pointer S writes the high byte of A + 2 to
\* $0100 + S and the low byte to $0100 + ((S - 1) mod 256), leaves the stack
\* pointer at (S - 2) mod 256, sets the program counter to the little-endian
\* operand, and writes nothing outside the stack page.
C7_CallPushes ==
    Did(\h20)
        => LET A == last.cpu.pc
               S == last.cpu.sp
           IN /\ Peek(memory, \h0100 + S) = ((A + 2) \div 256) % 256
              /\ Peek(memory, \h0100 + ((S + 255) % 256)) = (A + 2) % 256
              /\ sp = (S + 254) % 256
              /\ sp \in Byte
              /\ pc = Target16(last.cpu)
              /\ SameOutside(memory, last.cpu.memory,
                             {\h0100 + S, \h0100 + ((S + 255) % 256)})
              /\ a = last.cpu.a /\ x = last.cpu.x /\ y = last.cpu.y
              /\ status = last.cpu.status

\* C7 witness: a call executed with the stack pointer at 0, wrapping to $FE
C7_Witness ==
    /\ Did(\h20)
    /\ last.cpu.sp = 0
    /\ sp = \hFE
    /\ last.cpu.pc = \hFFF0

\* C8: each branch tests its one flag; taken from A with operand b it goes to
\* A + 2 + signed(b), the target the decoder prints for the same two bytes at
\* A; not taken it goes to A + 2; registers, flags and memory are unchanged.
C8_BranchMatchesDecoder ==
    (InRun /\ last.op \in BranchOpcodes /\ last.res = "ok")
        => LET A == last.cpu.pc
               b == Peek(last.cpu.memory, A + 1)
           IN /\ IF FlagHolds(last.op, last.cpu.status)
                 THEN /\ pc = A + 2 + Displacement(b)
                      /\ pc = RelTarget(A, b)
                      /\ Operand2(OPCODES[last.op][3], A, b)
                            = <<"$">> \o FormatX(pc, 4)
                 ELSE pc = A + 2
              /\ a = last.cpu.a /\ x = last.cpu.x /\ y = last.cpu.y
              /\ sp = last.cpu.sp /\ status = last.cpu.status
              /\ memory = last.cpu.memory

\* C8 witness: BMI taken with the largest backward displacement
C8_Witness ==
    /\ InRun /\ Did(\h30)
    /\ FlagHolds(\h30, last.cpu.status)
    /\ Peek(last.cpu.memory, last.cpu.pc + 1) = \h80
    /\ pc = last.cpu.pc - 126

\* C10: every implemented opcode is in the decoder's table; an instruction
\* that does not redirect control flow advances the program counter by the
\* size the table declares; JMP sets the program counter to its little-endian
\* operand and leaves registers, flags and memory as they were.
C10_AdvanceBySize ==
    /\ ImplementedOpcodes \subseteq DOMAIN OPCODES
    /\ (InRun /\ last.op \in ImplementedOpcodes /\ last.res = "ok"
          /\ last.op \notin {\h4C, \h20}
          /\ ~(last.op \in BranchOpcodes /\ FlagHolds(last.op, last.cpu.status)))
        => pc = last.cpu.pc + OPCODES[last.op][2]
    /\ Did(\h4C)
        => /\ pc = Target16(last.cpu)
           /\ a = last.cpu.a /\ x = last.cpu.x /\ y = last.cpu.y
           /\ sp = last.cpu.sp /\ status = last.cpu.status
           /\ memory = last.cpu.memory

\* C10 witness: a 3-byte store executed, moving the program counter by 3
C10_Witness ==
    /\ Did(\h8D)
    /\ OPCODES[\h8D][2] = 3
    /\ pc = last.cpu.pc + 3
    /\ memory # last.cpu.memory

\* the status bits by name
ZeroSet(st) == (st \div 2) % 2 = 1
NegativeSet(st) == (st \div 128) % 2 = 1
CarrySet(st) == st % 2 = 1

LoadOpcodes == {\hA9, \hA5, \hAD, \hBD, \hB9, \hA2, \hA0}
CompareOpcodes == {\hC9, \hC5, \hCD, \hE0, \hC0}

\* the operand value of the instruction op at c.pc: the immediate byte, or the
\* byte in the zero-page, absolute or indexed cell it names
OperandValue(c, op) ==
    LET m == c.memory
    IN CASE op \in {\hA9, \hA2, \hA0, \hC9, \hE0, \hC0, \h29, \h69, \hE9}
              -> Peek(m, c.pc + 1)
         [] op \in {\hA5, \hC5} -> Peek(m, Peek(m, c.pc + 1))
         [] op \in {\hAD, \hCD, \h4D, \hED} -> Peek(m, Target16(c))
         [] op = \hBD -> Peek(m, (Target16(c) + c.x) % MemSize)
         [] op = \hB9 -> Peek(m, (Target16(c) + c.y) % MemSize)

\* the register a compare opcode compares
ComparedRegister(c, op) ==
    CASE op \in {\hC9, \hC5, \hCD} -> c.a
      [] op = \hE0 -> c.x
      [] op = \hC0 -> c.y

\* opcodes whose result byte is left in A, in X, in Y, in a memory cell
ResultInA == {\hA9, \hA5, \hAD, \hBD, \hB9, \h98, \h8A, \h29, \h4D, \h69,
              \hE9, \hED, \h4A}
ResultInX == {\hA2, \hAA, \hE8, \hCA}
ResultInY == {\hA0, \hA8, \hC8, \h88}
ResultInMemory == {\hE6, \hC6, \hEE, \hCE}

ResultOpcodes ==
    ResultInA \cup ResultInX \cup ResultInY \cup ResultInMemory
        \cup CompareOpcodes

\* the result byte of the latest instruction: what it left in its destination,
\* or for a compare (register - operand) mod 256
ResultByte ==
    LET c == last.cpu
        op == last.op
    IN CASE op \in ResultInA -> a
         [] op \in ResultInX -> x
         [] op \in ResultInY -> y
         [] op \in {\hE6, \hC6} -> Peek(memory, Peek(c.memory, c.pc + 1))
         [] op \in {\hEE, \hCE} -> Peek(memory, Target16(c))
         [] op \in CompareOpcodes
              -> (ComparedRegister(c, op) - OperandValue(c, op) + 256) % 256

\* C11: after every instruction that produces a result byte, Zero is set iff
\* the result byte is 0 and Negative is set iff its bit 7 is 1; a load leaves
\* its operand as the result, so loading $00 sets Zero and clears Negative and
\* loading $80 sets Negative and clears Zero.
C11_ZeroNegativeFollowResult ==
    (InRun /\ last.op \in ResultOpcodes /\ last.res = "ok")
        => /\ ResultByte \in Byte
           /\ ZeroSet(status) <=> ResultByte = 0
           /\ NegativeSet(status) <=> ResultByte >= 128
           /\ last.op \in LoadOpcodes
                => /\ ResultByte = OperandValue(last.cpu, last.op)
                   /\ ResultByte = \h00 => (ZeroSet(status) /\ ~NegativeSet(status))
                   /\ ResultByte = \h80 => (NegativeSet(status) /\ ~ZeroSet(status))

\* C11 witness: a compare whose difference wraps to $80 after Zero was set:
\* Negative is set and Zero is cleared
C11_Witness ==
    /\ Did(\hC9)
    /\ last.cpu.a = \h00
    /\ ZeroSet(last.cpu.status)
    /\ OperandValue(last.cpu, \hC9) = \h80
    /\ NegativeSet(status) /\ ~ZeroSet(status)

\* C12: a comparison (CMP imm/zp/abs against A, CPX imm against X, CPY imm
\* against Y) of register value r with operand value m sets Carry iff r >= m,
\* and leaves A, X, Y, the stack pointer and all of memory unchanged.
C12_CompareFrame ==
    (InRun /\ last.op \in CompareOpcodes /\ last.res = "ok")
        => LET r == ComparedRegister(last.cpu, last.op)
               m == OperandValue(last.cpu, last.op)
           IN /\ r \in Byte /\ m \in Byte
              /\ CarrySet(status) <=> r >= m
              /\ ~CarrySet(status) <=> m > r
              /\ a = last.cpu.a /\ x = last.cpu.x /\ y = last.cpu.y
              /\ sp = last.cpu.sp
              /\ memory = last.cpu.memory

\* C12 witness: CMP zero-page with the operand one above the accumulator
\* clears a Carry that was set
C12_Witness ==
    /\ Did(\hC5)
    /\ last.cpu.a = \h7F
    /\ OperandValue(last.cpu, \hC5) = \h80
    /\ CarrySet(last.cpu.status)
    /\ ~CarrySet(status)
    /\ a = \h7F

\* the carry-in of the latest instruction, as 0 or 1
CarryIn == IF CarrySet(last.cpu.status) THEN 1 ELSE 0

\* C13: with accumulator A, operand M and carry-in C, ADC leaves
\* (A + M + C) mod 256 in the accumulator with Carry set iff A + M + C > 255;
\* SBC (immediate and absolute) leaves (A - M - (1 - C)) mod 256 with Carry
\* set iff A - M - (1 - C) >= 0; LSR A leaves A div 2 with Carry equal to the
\* old bit 0 of A.
C13_Arithmetic ==
    LET A == last.cpu.a
        C == CarryIn
    IN /\ Did(\h69)
            => LET M == OperandValue(last.cpu, \h69)
               IN /\ a = (A + M + C) % 256
                  /\ CarrySet(status) <=> A + M + C > 255
       /\ (Did(\hE9) \/ Did(\hED))
            => LET M == OperandValue(last.cpu, last.op)
                   D == A - M - (1 - C)
               IN /\ a = (D + 256) % 256
                  /\ CarrySet(status) <=> D >= 0
       /\ Did(\h4A)
            => /\ a = A \div 2
               /\ CarrySet(status) <=> A % 2 = 1

\* C13 witness: $FF + $FF with carry-in 1 leaves $FF with Carry set
C13_Witness ==
    /\ Did(\h69)
    /\ last.cpu.a = \hFF
    /\ OperandValue(last.cpu, \h69) = \hFF
    /\ CarryIn = 1
    /\ a = \hFF
    /\ CarrySet(status)

\* C14: from a freshly constructed or reset CPU, after any sequence of
\* implemented instructions the accumulator, X, Y and the stack pointer are
\* each in 0..255, every memory byte is in 0..255, and the status byte has no
\* bit set other than Negative ($80), Zero ($02) and Carry ($01).
C14_ByteRanges ==
    /\ a \in Byte /\ x \in Byte /\ y \in Byte /\ sp \in Byte
    /\ memory.fill \in Byte
    /\ \A k \in DOMAIN memory.cells : memory.cells[k] \in Byte
    /\ status \in Byte
    /\ \A n \in 2..6 : (status \div (2 ^ n)) % 2 = 0

\* C14 witness: on a reset CPU a subtraction has borrowed, 0 - 1 with Carry
\* clear leaving $FE in the accumulator and Negative as the only flag
C14_Witness ==
    /\ resets > 0
    /\ Did(\hE9)
    /\ last.cpu.a = \h00
    /\ OperandValue(last.cpu, \hE9) = \h01
    /\ CarryIn = 0
    /\ a = \hFE
    /\ status = \h80

RECURSIVE RunToEnd(_, _)
\* run() as a function: the loop from CPU c under the budget max, to its end
RunToEnd(c, max) ==
    IF c.cycles >= max THEN [res |-> "budget", c |-> c]
    ELSE LET r == Iterate(c)
         IN IF r.res = "ok" THEN RunToEnd(r.c, max) ELSE r

\* a second CPU6502 object with no earlier history: constructed, then reset()
OtherCpu ==
    [a |-> 0, x |-> 0, y |-> 0, sp |-> \hFF, pc |-> 0, status |-> 0,
     memory |-> ResetMemory(ZeroMemory), cycles |-> 0]

\* the end of the same load_routine and run(start) on that second object
OtherRun ==
    RunToEnd([OtherCpu EXCEPT
                 !.memory = LoadBytes(@, routine.addr, routine.code),
                 !.pc = routine.addr],
             max_cycles)

\* C15: reproducibility. After reset(), the same load_routine and run(start),
\* a CPU with an earlier history ends with the same outcome and the same
\* final registers, flags and memory as a CPU without that history.
C15_Reproducible ==
    (resets > 0 /\ ctl = "done")
        => /\ outcome = OtherRun.res
           /\ a = OtherRun.c.a /\ x = OtherRun.c.x /\ y = OtherRun.c.y
           /\ sp = OtherRun.c.sp
           /\ status = OtherRun.c.status
           /\ memory = OtherRun.c.memory

-----------------------------------------------------------------------------
(* Properties of the decoder                                               *)

\* the value of a hexadecimal digit character
DigitValue(ch) == CHOOSE d \in 0..15 : HexChars[d + 1] = ch

\* the integer a hexadecimal text (with optional leading "-") denotes
HexValue(t) ==
    LET digits == IF Head(t) = "-" THEN Tail(t) ELSE t
        f[k \in 0..Len(digits)] ==
            IF k = 0 THEN 0 ELSE 16 * f[k - 1] + DigitValue(digits[k])
    IN IF Head(t) = "-" THEN -f[Len(digits)] ELSE f[Len(digits)]

\* the k-th byte (from 0) of a line's raw-bytes text
RawByte(l, k) == HexValue(SubSeq(l.raw, 3 * k + 1, 3 * k + 2))

\* a line that shows a relative branch
IsRelLine(l) ==
    /\ l.kind = "insn"
    /\ RawByte(l, 0) \in DOMAIN OPCODES
    /\ OPCODES[RawByte(l, 0)][3] = "rel"

\* the number of buffer bytes a line stands for
LineSize(l) == IF l.kind = "byte" THEN 1 ELSE OPCODES[RawByte(l, 0)][2]

\* the address at which the k-th line was decoded
DecodedAt(k) ==
    LET f[j \in 0..(k - 1)] ==
            IF j = 0 THEN start_addr ELSE f[j - 1] + LineSize(lines[j])
    IN f[k - 1]

\* C9: relative-branch law. For a relative-mode opcode decoded at A with
\* operand byte b the operand printed is the address A + 2 + D, where D = b
\* for b in 0..127 and D = b - 256 for b in 128..255.
C9_RelativeBranchLaw ==
    \A k \in DOMAIN lines :
        IsRelLine(lines[k])
            => LET l == lines[k]
                   A == DecodedAt(k)
                   b == RawByte(l, 1)
                   D == IF b \in 0..127 THEN b ELSE b - 256
               IN /\ D \in -128..127
                  /\ Head(l.operand) = "$"
                  /\ HexValue(Tail(l.operand)) = A + 2 + D
                  /\ b = At(data, A - start_addr + 1)

\* the number of raw bytes a line shows
RawCount(l) ==
    Cardinality({j \in 0..3 : 3 * j + 2 <= Len(l.raw) /\ l.raw[3 * j + 1] # " "})

\* the buffer offset the k-th line starts at: the raw bytes of the lines
\* before it
OffsetOf(k) ==
    LET f[j \in 0..(k - 1)] ==
            IF j = 0 THEN 0 ELSE f[j - 1] + RawCount(lines[j])
    IN f[k - 1]

\* C16: an opcode of the table followed by its operand bytes decodes to one
\* record whose number of raw bytes is the size the table declares (1, 2 or
\* 3) and whose raw bytes are the input bytes in order, and decoding
\* continues at offset + size.
C16_SizeAndRawBytes ==
    /\ \A k \in DOMAIN lines :
          LET l == lines[k]
              off == OffsetOf(k)
          IN /\ off < Len(data)
             /\ l.kind = "insn" <=> At(data, off) \in DOMAIN OPCODES
             /\ l.kind = "insn"
                  => LET size == OPCODES[At(data, off)][2]
                     IN /\ size \in 1..3
                        /\ RawCount(l) = size
                        /\ off + size <= Len(data)
                        /\ \A j \in 0..(size - 1) :
                              RawByte(l, j) = At(data, off + j)
                        /\ l.mnemonic = OPCODES[At(data, off)][1]
                        /\ HexValue(l.addr) = start_addr + off
                        /\ HexValue(l.rom_offset) = base_offset + off
    /\ i = OffsetOf(Len(lines) + 1)

\* C16 witness: NOP, a 3-byte store and RTS decoded as three records of 1, 3
\* and 1 raw bytes, the whole buffer consumed
C16_Witness ==
    /\ dctl = "done"
    /\ data = <<\hEA, \h8D, \h16, \h40, \h60>>
    /\ Len(lines) = 3
    /\ RawCount(lines[2]) = 3
    /\ RawByte(lines[2], 2) = \h40
    /\ OffsetOf(3) = 4
    /\ i = 5

\* a 2-byte or 3-byte instruction starts at offset k and fewer than its
\* operand bytes remain in the buffer
PartialAt(k) ==
    /\ k < Len(data)
    /\ At(data, k) \in DOMAIN OPCODES
    /\ k + OPCODES[At(data, k)][2] > Len(data)

\* C17: when a 2-byte or 3-byte instruction starts where fewer than its
\* operand bytes remain, disasm stops without error: the records decoded
\* before are returned unchanged, and no record is emitted for the partial
\* instruction or for any byte after it.
C17_PartialStops ==
    [][/\ (dctl = "loop" /\ PartialAt(i))
            => (dctl' = "done" /\ lines' = lines /\ i' = i)
       /\ dctl = "done" => lines' = lines
       /\ dctl = "loop" => SubSeq(lines', 1, Len(lines)) = lines]_vars

\* C17 witness: disasm returned one record, having stopped at a 3-byte
\* instruction of which two bytes were left
C17_Witness ==
    /\ dctl = "done"
    /\ data = <<\h60, \h4C, \h00>>
    /\ PartialAt(i)
    /\ i = 1
    /\ Len(lines) = 1
    /\ lines[1].mnemonic = "RTS"

\* C18: opcode lookup is total over 0..255. A byte the table lacks gets a
\* single-byte placeholder record, never an error, and decoding continues at
\* the very next byte: undefined bytes anywhere in the buffer never abort or
\* shorten the rest of the sequence, so disasm ends with the whole buffer
\* decoded unless a partial instruction ends it.
C18_UndefinedBytes ==
    /\ \A k \in DOMAIN lines :
          LET l == lines[k]
              off == OffsetOf(k)
          IN /\ off < Len(data)
             /\ At(data, off) \in Byte
             /\ At(data, off) \notin DOMAIN OPCODES
                  => /\ l.kind = "byte"
                     /\ l.mnemonic = ".byte"
                     /\ RawCount(l) = 1
                     /\ RawByte(l, 0) = At(data, off)
                     /\ HexValue(l.addr) = start_addr + off
                     /\ OffsetOf(k + 1) = off + 1
    /\ i = OffsetOf(Len(lines) + 1)
    /\ i <= Len(data)
    /\ dctl = "done" => (i = Len(data) \/ PartialAt(i))

\* C18 witness: a buffer with an undefined byte first, between instructions,
\* twice in a row and last, decoded to its end: four placeholders, two
\* instructions
C18_Witness ==
    /\ dctl = "done"
    /\ data = <<\h02, \hA9, \h01, \h02, \h02, \h8D, \h16, \h40, \h02>>
    /\ i = Len(data)
    /\ Len(lines) = 6
    /\ {k \in 1..6 : lines[k].kind = "byte"} = {1, 3, 4, 6}
    /\ lines[5].mnemonic = "STA"
    /\ RawByte(lines[6], 0) = \h02

\* the well-known registers and their labels
KnownRegisters ==
       (\h2000 :> " ; PPU_CTRL") @@ (\h2001 :> " ; PPU_MASK")
    @@ (\h2002 :> " ; PPU_STATUS") @@ (\h2006 :> " ; PPU_ADDR")
    @@ (\h2007 :> " ; PPU_DATA") @@ (\h4016 :> " ; JOY1")

\* the address the k-th line resolves: the little-endian operand of a 3-byte
\* instruction, the target of a relative branch, none (-1) otherwise
ResolvedAddress(k) ==
    LET l == lines[k]
    IN IF l.kind = "insn" /\ RawCount(l) = 3
       THEN RawByte(l, 1) + 256 * RawByte(l, 2)
       ELSE IF IsRelLine(l)
       THEN DecodedAt(k) + 2 + Displacement(RawByte(l, 1))
       ELSE -1

\* C19: a decoded instruction is annotated iff the address it resolves is one
\* of $2000, $2001, $2002, $2006, $2007, $4016, each with its own label
\* ($2001: PPU_MASK); instructions with a one-byte operand (immediate,
\* zero-page, indexed zero-page, indirect forms) and placeholders are never
\* annotated; A9 00 8D 01 20 at $8000 decodes to exactly two records,
\* LDA #$00 (size 2, no annotation) and STA $2001 (size 3, annotated).
C19_Annotation ==
    /\ \A k \in DOMAIN lines :
          LET l == lines[k]
              r == ResolvedAddress(k)
          IN /\ l.annotation # "" <=> r \in DOMAIN KnownRegisters
             /\ r \in DOMAIN KnownRegisters => l.annotation = KnownRegisters[r]
             /\ (l.kind = "insn" /\ RawCount(l) = 2 /\ ~IsRelLine(l))
                  => l.annotation = ""
             /\ (l.kind = "byte" \/ RawCount(l) = 1) => l.annotation = ""
    /\ (dctl = "done" /\ data = <<\hA9, \h00, \h8D, \h01, \h20>>
          /\ start_addr = \h8000)
        => /\ Len(lines) = 2
           /\ lines[1].mnemonic = "LDA"
           /\ lines[1].operand = <<"#", "$", "0", "0">>
           /\ RawCount(lines[1]) = 2
           /\ lines[1].annotation = ""
           /\ lines[2].mnemonic = "STA"
           /\ lines[2].operand = <<"$", "2", "0", "0", "1">>
           /\ RawCount(lines[2]) = 3
           /\ lines[2].annotation = " ; PPU_MASK"

\* C19 witness: the scenario buffer decoded at $8000, its store annotated
C19_Witness ==
    /\ dctl = "done"
    /\ data = <<\hA9, \h00, \h8D, \h01, \h20>>
    /\ start_addr = \h8000
    /\ Len(lines) = 2
    /\ ResolvedAddress(2) = \h2001
    /\ lines[2].annotation = " ; PPU_MASK"
    /\ lines[1].annotation = ""

\* the hexadecimal digits that follow the "$" of an operand text
AddressDigits(operand) ==
    LET p == CHOOSE q \in DOMAIN operand : operand[q] = "$"
        hex == {h \in DOMAIN operand :
                   /\ h > p
                   /\ \A q \in (p + 1)..h :
                         \E d \in DOMAIN HexChars : HexChars[d] = operand[q]}
    IN SubSeq(operand, p + 1, p + Cardinality(hex))

\* C20: round trip for absolute addressing. With operand bytes lo, hi (in
\* buffer order) the address disasm resolves and prints is lo + 256 * hi, and
\* address mod 256 and address div 256 give back lo and hi.
C20_AbsoluteRoundTrip ==
    \A k \in DOMAIN lines :
        (lines[k].kind = "insn" /\ RawCount(lines[k]) = 3)
            => LET l == lines[k]
                   off == OffsetOf(k)
                   lo == At(data, off + 1)
                   hi == At(data, off + 2)
                   digits == AddressDigits(l.operand)
                   address == HexValue(digits)
               IN /\ OPCODES[At(data, off)][3] \in {"abs", "absx", "absy", "ind"}
                  /\ Len(digits) = 4
                  /\ address = lo + 256 * hi
                  /\ address % 256 = lo
                  /\ address \div 256 = hi
                  /\ RawByte(l, 1) = lo /\ RawByte(l, 2) = hi

\* C20 witness: STA with operand bytes $FF, $01 printed as $01FF
C20_Witness ==
    /\ dctl = "done"
    /\ data = <<\h8D, \hFF, \h01>>
    /\ Len(lines) = 1
    /\ lines[1].operand = <<"$", "0", "1", "F", "F">>
    /\ HexValue(AddressDigits(lines[1].operand)) = \h01FF

\* C9 witness: a branch decoded at address 0 with displacement -128
C9_Witness ==
    /\ dctl = "done"
    /\ Len(lines) = 1
    /\ IsRelLine(lines[1])
    /\ start_addr = 0
    /\ RawByte(lines[1], 1) = \h80
    /\ HexValue(Tail(lines[1].operand)) = -126

-----------------------------------------------------------------------------
(* The stores and the patch routines on the executor                       *)

StoreOpcodes == {\h85, \h86, \h84, \h8D}

\* the register a store writes and the cell it names
StoredRegister(c, op) ==
    CASE op \in {\h85, \h8D} -> c.a
      [] op = \h86 -> c.x
      [] op = \h84 -> c.y

StoredCell(c, op) ==
    IF op = \h8D THEN Target16(c) ELSE Peek(c.memory, c.pc + 1)

\* registers and flags of CPU record c are the current ones
SameRegisters(c) ==
    a = c.a /\ x = c.x /\ y = c.y /\ sp = c.sp /\ status = c.status

\* the run was entered at "STA d; RTS", d not one of the routine's own cells,
\* with two steps of budget left
StoreRoutine ==
    /\ ctl = "done"
    /\ entry.pc + 2 < MemSize
    /\ Peek(entry.memory, entry.pc) = \h85
    /\ Peek(entry.memory, entry.pc + 2) = \h60
    /\ Peek(entry.memory, entry.pc + 1) \notin entry.pc..(entry.pc + 2)
    /\ entry.cycles + 2 <= max_cycles

\* C21: the routine 85 d 60, entered with accumulator v, returns normally with
\* memory[d] = v, every other byte, every register and every flag as at entry;
\* and each of STA zp, STX zp, STY zp, STA abs writes the named register to
\* the one cell it names and changes no other byte, register or flag.
C21_StoreFrame ==
    /\ StoreRoutine =>
          LET d == Peek(entry.memory, entry.pc + 1)
          IN /\ outcome = "returned"
             /\ Peek(memory, d) = entry.a
             /\ SameOutside(entry.memory, memory, {d})
             /\ SameRegisters(entry)
    /\ \A op \in StoreOpcodes :
          Did(op) =>
             LET t == StoredCell(last.cpu, op)
             IN /\ Peek(memory, t) = StoredRegister(last.cpu, op)
                /\ SameOutside(last.cpu.memory, memory, {t})
                /\ SameRegisters(last.cpu)

\* the scenario of the specification: 85 F6 60 entered with accumulator 2
C21_Witness ==
    /\ StoreRoutine
    /\ Peek(entry.memory, entry.pc + 1) = \hF6
    /\ entry.a = \h02
    /\ outcome = "returned"
    /\ Peek(memory, \hF6) = \h02
    /\ Peek(entry.memory, \hF6) = \h00

\* the player mode at $0727 and the VS-CPU flag at $04
ModePair(m) == <<Peek(m, \h0727), Peek(m, \h04)>>

\* 1 player, 2 players, VS CPU
MenuCycle == {<<1, 0>>, <<2, 0>>, <<2, 1>>}

AfterToggle(pair) ==
    CASE pair = <<1, 0>> -> <<2, 0>>
      [] pair = <<2, 0>> -> <<2, 1>>
      [] pair = <<2, 1>> -> <<1, 0>>

\* a run of the toggle routine has ended
ToggleDone ==
    ctl = "done" /\ routine.code = ToggleRoutine /\ entry.pc = ToggleAddr

\* C22: a run of the toggle routine entered with (mode, flag) in
\* {(1,0), (2,0), (2,1)} returns normally with the next pair of the cycle
\* (1,0) -> (2,0) -> (2,1) -> (1,0); toggles repeated from (1,0) keep the pair
\* in that set, the flag 1 only with mode 2, and every third toggle gives
\* (1,0) again.
C22_ToggleCycle ==
    /\ ToggleDone /\ ModePair(entry.memory) \in MenuCycle =>
          /\ outcome = "returned"
          /\ ModePair(memory) = AfterToggle(ModePair(entry.memory))
    /\ ToggleDone /\ first = <<1, 0>> =>
          /\ outcome = "returned"
          /\ ModePair(memory) \in MenuCycle
          /\ ModePair(memory)[2] = 1 => ModePair(memory)[1] = 2
          /\ resets % 3 = 0 => ModePair(memory) = first
          /\ resets % 3 = 1 => ModePair(memory) = <<2, 0>>
          /\ resets % 3 = 2 => ModePair(memory) = <<2, 1>>

\* the sixth toggle from (1,0): entered in VS CPU, back at 1 player
C22_Witness ==
    /\ ToggleDone
    /\ first = <<1, 0>>
    /\ resets = 6
    /\ ModePair(entry.memory) = <<2, 1>>
    /\ ModePair(memory) = <<1, 0>>
    /\ outcome = "returned"

\* offsets in the AI routine: the first instruction after the two entry
\* checks, the head of the scan loop, and the RTS the entry checks branch to
ScanSetup == 18
ScanLoop == 28
ExitPos == 98

\* the AI routine is running or has ended
InAi == InRun /\ routine.code = AiRoutine /\ entry.pc = AiAddr

AiDone == InAi /\ ctl = "done"

\* the bytes the routine reads at entry
VsCpuFlag == Peek(entry.memory, \h04)
GameMode == Peek(entry.memory, \h46)

AiGameplay == VsCpuFlag = 1 /\ GameMode >= 4

\* what the routine finds at entry: the player-2 playfield, the capsule's
\* colours and its column
Field(k) == Peek(entry.memory, \h0500 + k)
LeftColour == Peek(entry.memory, \h0381)
RightColour == Peek(entry.memory, \h0382)
CapsuleX == Peek(entry.memory, \h0385)

VirusTiles == \hD0..\hD2

\* the cells holding a virus of the left colour under a free column top
Reachable ==
    {k \in 0..127 : /\ Field(k) \in VirusTiles
                    /\ Field(k) - \hD0 = LeftColour
                    /\ Field(k % 8) = \hFF}

\* the one in the smallest row, the lowest offset among equals
Topmost ==
    CHOOSE k \in Reachable :
        \A j \in Reachable :
            (k \div 8 < j \div 8) \/ (k \div 8 = j \div 8 /\ k <= j)

\* C24: entered in gameplay ($04 = 1, $46 >= 4) the AI routine returns with
\* $00 = the column (offset mod 8) and $01 = the row (offset div 8) of the
\* virus cell of $0500-$057F that has the colour in $0381, a column top
\* $0500 + column equal to 0xFF, and the smallest row (the lowest offset of
\* that row); with no such cell, $00 = 3 and $01 = 0xFF.
C24_TargetSelection ==
    AiDone /\ AiGameplay =>
        /\ outcome = "returned"
        /\ IF Reachable = {}
           THEN Peek(memory, \h00) = 3 /\ Peek(memory, \h01) = \hFF
           ELSE /\ Peek(memory, \h00) = Topmost % 8
                /\ Peek(memory, \h01) = Topmost \div 8

\* the nearer virus is under an occupied column top, the farther one is chosen
C24_Witness ==
    /\ AiDone /\ AiGameplay
    /\ Field(3) = \h50 /\ Field(27) = \hD1 /\ Field(42) = \hD1
    /\ LeftColour = 1
    /\ Reachable = {42}
    /\ Peek(entry.memory, \h00) = \h55 /\ Peek(entry.memory, \h01) = \hAA
    /\ Peek(memory, \h00) = 2 /\ Peek(memory, \h01) = 5
    /\ outcome = "returned"

-----------------------------------------------------------------------------
(* The step budget                                                         *)

\* the instructions run() may still execute when it is entered
BudgetAtEntry ==
    IF max_cycles > entry.cycles THEN max_cycles - entry.cycles ELSE 0

\* C26: run() executes at most max_cycles - (step counter at entry)
\* instructions, each adding exactly one to the counter; it returns True only
\* when RTS is fetched after fewer executed instructions than that; and a run
\* that ends otherwise, without meeting an unsupported opcode, returns False
\* (budget exceeded) with the budget used up.
C26_BudgetAccounting ==
    /\ InRun => cycles - entry.cycles <= BudgetAtEntry
    /\ \A op \in ImplementedOpcodes : Did(op) => cycles = last.cpu.cycles + 1
    /\ InRun /\ last # NoStep /\ last.res # "ok" => cycles = last.cpu.cycles
    /\ ctl = "done" /\ outcome = "returned" =>
          /\ last.op = \h60
          /\ cycles - entry.cycles < BudgetAtEntry
    /\ ctl = "done" /\ last # NoStep /\ last.op = \h60 => outcome = "returned"
    /\ ctl = "done" /\ outcome \notin {"returned", "unsupported"} =>
          /\ outcome = "budget"
          /\ cycles - entry.cycles = BudgetAtEntry

-----------------------------------------------------------------------------
(* Targets and coverage of the listing                                     *)

\* C27: for every relative-branch or absolute-mode instruction decoded at an
\* address A in 0..0xFFFF the target disasm resolves is a 16-bit address,
\* 0 <= target <= 0xFFFF, for a branch the address (A + 2 + D) mod 65536.
C27_TargetsSixteenBit ==
    \A k \in DOMAIN lines :
        LET l == lines[k]
            A == DecodedAt(k)
        IN A \in 0..\hFFFF =>
              /\ IsRelLine(l) =>
                    LET b == RawByte(l, 1)
                        D == IF b < 128 THEN b ELSE b - 256
                        target == HexValue(Tail(l.operand))
                    IN /\ target \in 0..\hFFFF
                       /\ target = (A + 2 + D) % MemSize
              /\ (l.kind = "insn" /\ RawCount(l) = 3) =>
                    HexValue(AddressDigits(l.operand)) \in 0..\hFFFF

\* the bytes of the buffer the lines before the k-th stand for, a placeholder
\* counting 1
SizesBefore(k) == DecodedAt(k) - start_addr

\* the bytes of the buffer no record stands for
Undecoded == Len(data) - SizesBefore(Len(lines) + 1)

\* the address of every record, the number of records and the bytes left
\* undecoded: 0 when disasm ends at the end of the buffer, 1 or 2 when a
\* partial instruction ends it
CoversPrefix ==
    /\ \A k \in DOMAIN lines :
          HexValue(lines[k].addr) = start_addr + SizesBefore(k)
    /\ Len(lines) <= Len(data)
    /\ dctl \in {"loop", "done"} => i = SizesBefore(Len(lines) + 1)
    /\ dctl = "done" =>
          IF PartialAt(i) THEN Undecoded \in 1..2 ELSE Undecoded = 0

\* C28 as stated: the records cover a prefix of the buffer without gaps or
\* overlaps, and every record, placeholders included, displays the offset
\* base_offset + the sum of the sizes of the records before it.
C28_EveryRecordShowsOffset ==
    /\ CoversPrefix
    /\ \A k \in DOMAIN lines :
          /\ lines[k].rom_offset # <<>>
          /\ HexValue(lines[k].rom_offset) = base_offset + SizesBefore(k)

\* C28, amended: the records cover a prefix of the buffer without gaps or
\* overlaps; the k-th record's address is start_addr + the sum of the sizes of
\* the records before it; an instruction record displays the offset
\* base_offset + that sum and a placeholder record displays no offset; the
\* records are at most len(data); 0 bytes are left undecoded without
\* truncation and 1 or 2 with it.
C28_RecordsCoverPrefix ==
    /\ CoversPrefix
    /\ \A k \in DOMAIN lines :
          IF lines[k].kind = "insn"
          THEN /\ lines[k].rom_offset # <<>>
               /\ HexValue(lines[k].rom_offset) = base_offset + SizesBefore(k)
          ELSE lines[k].rom_offset = <<>>

\* an instruction, a placeholder and a truncated two-byte instruction
C28_Witness ==
    /\ dctl = "done"
    /\ data = <<\hEA, \h02, \hA9>>
    /\ Len(lines) = 2
    /\ lines[1].rom_offset = <<"0", "0", "1", "0">>
    /\ lines[2].kind = "byte"
    /\ lines[2].addr = <<"8", "0", "0", "1">>
    /\ lines[2].rom_offset = <<>>
    /\ PartialAt(i)
    /\ Undecoded = 1

-----------------------------------------------------------------------------
(* Carry, and termination of the patch routines                            *)

\* ADC imm, SBC imm/abs, CMP imm/zp/abs, CPX imm, CPY imm, LSR A, CLC, SEC
CarryOpcodes ==
    {\h69, \hE9, \hED, \hC9, \hC5, \hCD, \hE0, \hC0, \h4A, \h18, \h38}

\* offsets in the AI routine: BCC store_move, which follows CMP $00, BEQ and
\* LDY #$01; and the first instruction after the scan loop
MoveBranch == 93
AfterScan == 71

\* C29: every implemented instruction other than ADC, SBC, CMP, CPX, CPY,
\* LSR A, CLC and SEC leaves Carry as it was; and in the AI routine the Carry
\* of CMP $00 (capsule column >= target) is what BCC finds after the
\* intervening BEQ and LDY.
C29_CarryFrame ==
    /\ \A op \in ImplementedOpcodes \ CarryOpcodes :
          Did(op) => (CarrySet(status) <=> CarrySet(last.cpu.status))
    /\ (InAi /\ ctl = "running" /\ pc = AiAddr + MoveBranch) =>
          /\ last.op = \hA0
          /\ CarrySet(status) <=> CapsuleX >= Peek(memory, \h00)

\* the AI routine at its BCC after LDY #$01, Carry still set by the compare
\* of a capsule right of the target
C29_Witness ==
    /\ InAi /\ ctl = "running"
    /\ pc = AiAddr + MoveBranch
    /\ Did(\hA0)
    /\ CarrySet(last.cpu.status) /\ CarrySet(status)
    /\ ZeroSet(status) = FALSE
    /\ CapsuleX = 7 /\ Peek(memory, \h00) = 2

\* the scan visits the cells 0..ScanCells - 1; one visit executes at most
\* MaxPerCell instructions (from LDA $0500,Y to BCC scan_loop), the entry
\* checks and the setup before the first visit BeforeScan, and the decision
\* after the last at most AfterScanMax
ScanCells == 128
MaxPerCell == 24
BeforeScan == 14
AfterScanMax == 9

\* the longest path through the toggle routine, and the mirror routine
ToggleMax == 9
MirrorMax == 4

PatchRoutines == {ToggleRoutine, MirrorRoutine, AiRoutine}

\* a patch routine run by the harness on a reset CPU with the default budget
PatchRun ==
    /\ InRun
    /\ resets > 0
    /\ routine.code \in PatchRoutines
    /\ entry.pc = routine.addr
    /\ entry.cycles = 0
    /\ max_cycles = DefaultMaxCycles

\* C30: the toggle, mirror and AI routines, run on a reset CPU, end by
\* fetching their RTS after far fewer than 10000 executed instructions, never
\* with budget exceeded, unsupported opcode or a fault; the scan loop of the
\* AI routine is entered with Y = 0, 1, ..., 127, each visit within its share
\* of steps, and left with Y = 128.
C30_RoutinesTerminate ==
    /\ PatchRun => outcome \in {"none", "returned"}
    /\ PatchRun /\ ctl = "done" =>
          /\ outcome = "returned"
          /\ cycles < DefaultMaxCycles
          /\ routine.code = ToggleRoutine => cycles <= ToggleMax
          /\ routine.code = MirrorRoutine => cycles = MirrorMax
          /\ routine.code = AiRoutine =>
                cycles <= BeforeScan + ScanCells * MaxPerCell + AfterScanMax
    /\ PatchRun /\ InAi /\ ctl = "running" /\ pc = AiAddr + ScanLoop =>
          /\ y \in 0..(ScanCells - 1)
          /\ cycles >= BeforeScan + y
          /\ cycles <= BeforeScan + y * MaxPerCell
    /\ PatchRun /\ InAi /\ pc = AiAddr + AfterScan =>
          /\ y = ScanCells
          /\ Did(\h90)

\* the AI routine returned after scanning all 128 cells and choosing to rotate
C30_Witness ==
    /\ PatchRun /\ AiDone /\ AiGameplay
    /\ outcome = "returned"
    /\ y = ScanCells
    /\ cycles > BeforeScan + ScanCells
    /\ Reachable = {42}
    /\ Peek(memory, \hF6) = \h40

====
